---------------------------- MODULE Spec2Model ----------------------------
(***************************************************************************)
(* A model of the numerical core of the options analytics package          *)
(* (src/options/analytics.py): the Breeden-Litzenberger density extractor, *)
(* the ImpliedDistribution query layer and the Black-Scholes pricing       *)
(* functions.                                                              *)
(*                                                                         *)
(* Numbers.  Python floats are modelled by exact rationals [n, d] in       *)
(* lowest terms with d > 0, extended by NaN = 0/0 and +-Inf = +-1/0, the   *)
(* values numpy produces on a division by zero.  Rounding error of the     *)
(* floating point arithmetic is not modelled.                              *)
(***************************************************************************)
EXTENDS Integers, Sequences, FiniteSets, TLC

(***************************************************************************)
(* Rational arithmetic                                                     *)
(***************************************************************************)
Abs(x) == IF x < 0 THEN -x ELSE x

RECURSIVE GCD(_, _)
GCD(a, b) == IF b = 0 THEN a ELSE GCD(b, a % b)

NaN == [n |-> 0, d |-> 0]

\* n/d as a float: lowest terms; x/0 is NaN for x = 0 and +-Inf otherwise.
Q(n, d) ==
    IF d = 0
    THEN [n |-> IF n > 0 THEN 1 ELSE IF n < 0 THEN -1 ELSE 0, d |-> 0]
    ELSE LET g == GCD(Abs(n), Abs(d))
             s == IF d < 0 THEN -1 ELSE 1
         IN  [n |-> s * (n \div g), d |-> s * (d \div g)]

RI(k) == [n |-> k, d |-> 1]

IsNaN(x) == x.d = 0 /\ x.n = 0
IsFinite(x) == x.d > 0

\* Arithmetic; an operand that is not finite yields NaN (no operation of the
\* model adds or multiplies an infinity).
RAdd(a, b) ==
    IF ~IsFinite(a) \/ ~IsFinite(b) THEN NaN
    ELSE LET g == GCD(a.d, b.d)
         IN  Q(a.n * (b.d \div g) + b.n * (a.d \div g), (a.d \div g) * b.d)
RNeg(a) == [n |-> -a.n, d |-> a.d]
RSub(a, b) == RAdd(a, RNeg(b))
RMul(a, b) ==
    IF ~IsFinite(a) \/ ~IsFinite(b) THEN NaN
    ELSE LET g1 == GCD(Abs(a.n), b.d)
             g2 == GCD(Abs(b.n), a.d)
         IN  Q((a.n \div g1) * (b.n \div g2), (a.d \div g2) * (b.d \div g1))
RDiv(a, b) ==
    IF ~IsFinite(a) \/ ~IsFinite(b) THEN NaN
    ELSE IF b.n = 0 THEN Q(a.n, 0)
    ELSE RMul(a, Q(b.d, b.n))

\* IEEE comparisons: every comparison with NaN is false.
RLt(a, b) == ~IsNaN(a) /\ ~IsNaN(b) /\ a.n * b.d < b.n * a.d
RLe(a, b) == ~IsNaN(a) /\ ~IsNaN(b) /\ a.n * b.d <= b.n * a.d
RGt(a, b) == RLt(b, a)
RGe(a, b) == RLe(b, a)
\* Python's max(a, b): b only when b > a (so max(0, NaN) = 0).
PyMax(a, b) == IF RGt(b, a) THEN b ELSE a
\* np.maximum(a, b): NaN when either is NaN.
NpMaximum(a, b) == IF IsNaN(a) \/ IsNaN(b) THEN NaN ELSE IF RGt(b, a) THEN b ELSE a

Zero == RI(0)
One == RI(1)

(***************************************************************************)
(* Sequence helpers                                                        *)
(***************************************************************************)
Range(s) == {s[i] : i \in DOMAIN s}

RECURSIVE SetToSortedSeq(_)
SetToSortedSeq(S) ==
    IF S = {} THEN <<>>
    ELSE LET m == CHOOSE x \in S : \A y \in S : x <= y
         IN  <<m>> \o SetToSortedSeq(S \ {m})

\* A stable sort of rows by strike (insertion sort).
RECURSIVE InsertByStrike(_, _)
InsertByStrike(row, s) ==
    IF s = <<>> THEN <<row>>
    ELSE IF row.strike < Head(s).strike THEN <<row>> \o s
    ELSE <<Head(s)>> \o InsertByStrike(row, Tail(s))

RECURSIVE SortByStrike(_)
SortByStrike(s) ==
    IF s = <<>> THEN <<>>
    ELSE InsertByStrike(s[Len(s)], SortByStrike(SubSeq(s, 1, Len(s) - 1)))


(***************************************************************************)
(* Option chains.  A chain side (a DataFrame) is a record                  *)
(*   [has_bid, has_ask : whether the column exists, rows : Seq(row)]       *)
(* and a row is [strike, lastPrice, bid, ask, impliedVolatility], strike an *)
(* integer and the others rationals (NaN for a missing value).  The        *)
(* required columns strike, lastPrice and impliedVolatility always exist.  *)
(***************************************************************************)
LowerStrikeFactor == Q(3, 10)     \* 0.3
UpperStrikeFactor == Q(2, 1)      \* 2.0
IvCap == RI(5)                    \* 500% implied volatility
BidFactor == Q(95, 100)           \* 0.95
AskFactor == Q(105, 100)          \* 1.05

\* _clean_options: add bid/ask when the column is missing, filter, tag the
\* side, sort by strike.
CleanOptions(options, current_price, option_type) ==
    LET AddBidAsk(row) ==
            [row EXCEPT
                !.bid = IF options.has_bid THEN row.bid
                        ELSE RMul(row.lastPrice, BidFactor),
                !.ask = IF options.has_ask THEN row.ask
                        ELSE RMul(row.lastPrice, AskFactor)]
        df == [i \in DOMAIN options.rows |-> AddBidAsk(options.rows[i])]
        Valid(row) ==
            /\ RGt(row.lastPrice, Zero)
            /\ RGt(row.impliedVolatility, Zero)
            /\ RLt(row.impliedVolatility, IvCap)
            /\ RGt(RI(row.strike), RMul(RI(current_price), LowerStrikeFactor))
            /\ RLt(RI(row.strike), RMul(RI(current_price), UpperStrikeFactor))
        kept == SelectSeq(df, Valid)
        typed == [i \in DOMAIN kept |->
                    [strike |-> kept[i].strike, lastPrice |-> kept[i].lastPrice,
                     bid |-> kept[i].bid, ask |-> kept[i].ask,
                     impliedVolatility |-> kept[i].impliedVolatility,
                     type |-> option_type]]
    IN  SortByStrike(typed)

\* The mid column without the fill.
MidPrice_NoFill(row) == RDiv(RAdd(row.bid, row.ask), RI(2))

\* The mid column: (bid + ask) / 2, with NaN filled by lastPrice.
MidPrice(row) ==
    LET m == RDiv(RAdd(row.bid, row.ask), RI(2))
    IN  IF IsNaN(m) THEN row.lastPrice ELSE m

WithMid(clean) ==
    [i \in DOMAIN clean |->
        [strike |-> clean[i].strike, lastPrice |-> clean[i].lastPrice,
         bid |-> clean[i].bid, ask |-> clean[i].ask,
         impliedVolatility |-> clean[i].impliedVolatility,
         type |-> clean[i].type, mid |-> MidPrice(clean[i])]]

\* pd.merge(calls, puts, on='strike', how='outer'): keys in ascending order;
\* a key on both sides yields every (call row, put row) pair, call-major; a
\* key on one side yields its rows with NaN for the other side's columns.
RECURSIVE Flatten(_)
Flatten(ss) == IF ss = <<>> THEN <<>> ELSE Head(ss) \o Flatten(Tail(ss))

MergeOuter(calls, puts) ==
    LET keys == SetToSortedSeq({calls[i].strike : i \in DOMAIN calls}
                               \cup {puts[i].strike : i \in DOMAIN puts})
        At(rows, k) == SelectSeq(rows, LAMBDA r : r.strike = k)
        Pair(c, p) == [strike |-> c.strike, call_mid |-> c.mid,
                       call_iv |-> c.impliedVolatility,
                       put_mid |-> p.mid, put_iv |-> p.impliedVolatility]
        OnlyCall(c) == [strike |-> c.strike, call_mid |-> c.mid,
                        call_iv |-> c.impliedVolatility,
                        put_mid |-> NaN, put_iv |-> NaN]
        OnlyPut(p) == [strike |-> p.strike, call_mid |-> NaN, call_iv |-> NaN,
                       put_mid |-> p.mid, put_iv |-> p.impliedVolatility]
        Group(k) ==
            LET cs == At(calls, k)
                ps == At(puts, k)
            IN  IF ps = <<>> THEN [i \in DOMAIN cs |-> OnlyCall(cs[i])]
                ELSE IF cs = <<>> THEN [i \in DOMAIN ps |-> OnlyPut(ps[i])]
                ELSE Flatten([i \in DOMAIN cs |->
                                [j \in DOMAIN ps |-> Pair(cs[i], ps[j])]])
    IN  Flatten([i \in DOMAIN keys |-> Group(keys[i])])

\* The call price of a merged row without the averaging: the call mid
\* wherever there is a call.
CombinedPrice_CallFirst(row, S, discount) ==
    IF IsNaN(row.call_mid)
    THEN RSub(RAdd(row.put_mid, RI(S)), RMul(RI(row.strike), discount))
    ELSE row.call_mid

\* _combine_with_parity: the call price per merged row, then the rows with a
\* price that is not NaN and is > 0.
CombinedPrice(row, S, discount) ==
    LET synthetic_call ==
            RSub(RAdd(row.put_mid, RI(S)), RMul(RI(row.strike), discount))
        filled == IF IsNaN(row.call_mid) THEN synthetic_call ELSE row.call_mid
        has_both == ~IsNaN(row.call_mid) /\ ~IsNaN(row.put_mid)
    IN  IF has_both THEN RDiv(RAdd(row.call_mid, synthetic_call), RI(2))
        ELSE filled

CombineWithParity(calls, puts, S, discount) ==
    LET merged == MergeOuter(calls, puts)
        priced == [i \in DOMAIN merged |->
                    [strike |-> merged[i].strike,
                     call_mid |-> merged[i].call_mid,
                     call_iv |-> merged[i].call_iv,
                     put_mid |-> merged[i].put_mid,
                     put_iv |-> merged[i].put_iv,
                     call_price |-> CombinedPrice(merged[i], S, discount)]]
    IN  SelectSeq(priced,
                  LAMBDA r : ~IsNaN(r.call_price) /\ RGt(r.call_price, Zero))


(***************************************************************************)
(* np.exp, in fixed point.  Values are integers in units of 1/FP.          *)
(* exp(-y) for y > 1/2 is the square of exp(-y/2); for 0 <= y <= 1/2 it is *)
(* the Taylor series to ExpTerms terms.                                    *)
(***************************************************************************)
FP == 10000
ExpTerms == 8

\* a / b rounded to the nearest integer (b > 0).
DivRound(a, b) ==
    IF a >= 0 THEN (2 * a + b) \div (2 * b) ELSE -((2 * (-a) + b) \div (2 * b))

ToFP(x) == DivRound(x.n * FP, x.d)

RECURSIVE ExpSeries(_, _, _, _)
ExpSeries(xfp, k, term, acc) ==
    IF k > ExpTerms THEN acc
    ELSE LET t == DivRound(term * xfp, FP * k)
         IN  ExpSeries(xfp, k + 1, t, acc + t)

RECURSIVE ExpNegFP(_)
ExpNegFP(yfp) ==     \* exp(-yfp/FP) * FP for yfp >= 0
    IF 2 * yfp <= FP THEN ExpSeries(-yfp, 1, FP, FP)
    ELSE LET h == ExpNegFP(yfp \div 2)
             h2 == ExpNegFP(yfp - yfp \div 2)
         IN  DivRound(h * h2, FP)

ExpFP(xfp) ==
    IF xfp <= 0 THEN ExpNegFP(-xfp) ELSE DivRound(FP * FP, ExpNegFP(xfp))

Exp(x) == Q(ExpFP(ToFP(x)), FP)

(***************************************************************************)
(* numpy array operations on sequences of rationals                        *)
(***************************************************************************)
\* np.linspace(start, stop, num) for num >= 2.
Linspace(start, stop, num) ==
    [i \in 1..num |->
        RAdd(start, RMul(Q(i - 1, num - 1), RSub(stop, start)))]

RECURSIVE SumTo(_, _)
SumTo(a, k) == IF k = 0 THEN Zero ELSE RAdd(SumTo(a, k - 1), a[k])

\* np.cumsum(a)
Cumsum(a) == [i \in DOMAIN a |-> SumTo(a, i)]

\* np.trapz(y, x)
Trapz(y, x) ==
    SumTo([i \in 1..(Len(x) - 1) |->
             RMul(RSub(x[i + 1], x[i]),
                  RDiv(RAdd(y[i], y[i + 1]), RI(2)))],
          Len(x) - 1)

\* Elementwise helpers.
Scale(a, c) == [i \in DOMAIN a |-> RMul(a[i], c)]
Over(a, c) == [i \in DOMAIN a |-> RDiv(a[i], c)]
Times(a, b) == [i \in DOMAIN a |-> RMul(a[i], b[i])]


(***************************************************************************)
(* BreedenLitzenberger.extract_density                                     *)
(***************************************************************************)
\* The count below which the extractor gives up; the first is the variant
\* that would let four quotes through.
MinCombined_Four == 5 - 1
MinCombined == 5          \* len(combined) < 5 raises
SplineOrder == 3          \* UnivariateSpline's default degree k

InsufficientData == "Not enough valid options data"
SplineError == "CubicSpline: x must contain at least 2 elements"
ArgminError == "attempt to get argmin of an empty sequence"

Raise(msg) == [status |-> "raise", error |-> msg]

\* T = days_to_exp / 365.0 and discount = exp(-r T).
YearFraction(days_to_exp) == Q(days_to_exp, 365)
Discount(r, T) == Exp(RNeg(RMul(r, T)))

CallsClean(calls, current_price) ==
    WithMid(CleanOptions(calls, current_price, "call"))
PutsClean(puts, current_price) ==
    WithMid(CleanOptions(puts, current_price, "put"))

Combined(calls, puts, current_price, days_to_exp, r) ==
    CombineWithParity(CallsClean(calls, current_price),
                      PutsClean(puts, current_price),
                      current_price,
                      Discount(r, YearFraction(days_to_exp)))

MinStrike(combined) ==
    CHOOSE k \in {combined[i].strike : i \in DOMAIN combined} :
        \A i \in DOMAIN combined : k <= combined[i].strike
MaxStrike(combined) ==
    CHOOSE k \in {combined[i].strike : i \in DOMAIN combined} :
        \A i \in DOMAIN combined : k >= combined[i].strike

\* The interpolation grid: the observed range extended by 10% on each side,
\* the lower end raised to 0.5 * current_price.
GridLow(combined, current_price) ==
    LET k_min == MinStrike(combined)
        k_range == MaxStrike(combined) - k_min
    IN  PyMax(RSub(RI(k_min), RMul(Q(1, 10), RI(k_range))),
              RMul(RI(current_price), Q(1, 2)))
GridHigh(combined) ==
    LET k_max == MaxStrike(combined)
        k_range == k_max - MinStrike(combined)
    IN  RAdd(RI(k_max), RMul(Q(1, 10), RI(k_range)))
StrikesInterp(combined, current_price, num_points) ==
    Linspace(GridLow(combined, current_price), GridHigh(combined), num_points)

\* The points handed to the spline: sorted by strike (argsort, taken to be
\* stable), then np.unique(return_index=True), which keeps the first row of
\* each strike.
SplinePoints(combined) ==
    LET sorted == SortByStrike(combined)
        First(i) == \A j \in 1..(i - 1) : sorted[j].strike # sorted[i].strike
        idx == SetToSortedSeq({i \in DOMAIN sorted : First(i)})
    IN  [j \in DOMAIN idx |->
            [strike |-> sorted[idx[j]].strike, price |-> sorted[idx[j]].call_price]]

\* Which spline is fitted.  UnivariateSpline needs more than k = 3 points and
\* raises otherwise; CubicSpline, the fallback, needs at least 2 points and its
\* own exception is not caught.
SplineUsed(points) ==
    IF Len(points) > SplineOrder THEN "UnivariateSpline"
    ELSE IF Len(points) >= 2 THEN "CubicSpline"
    ELSE "none"

\* sigma_smooth = max(1, int(num_points * 0.02))
SigmaSmooth(num_points) ==
    LET t == (num_points * 2) \div 100 IN IF t > 1 THEN t ELSE 1

\* The nearest row taken from the end of the table: the last row at the
\* least distance.
NearestIv_Last(rows, current_price) ==
    LET diff(i) == Abs(rows[i].strike - current_price)
        i0 == CHOOSE i \in DOMAIN rows :
                /\ \A j \in DOMAIN rows : diff(i) <= diff(j)
                /\ \A j \in (i + 1)..Len(rows) : diff(j) > diff(i)
    IN  rows[i0].impliedVolatility

\* _get_atm_iv: idxmin takes the first row at the least distance; on an
\* empty calls table idxmin raises ValueError.
NearestIv(rows, current_price) ==
    LET diff(i) == Abs(rows[i].strike - current_price)
        i0 == CHOOSE i \in DOMAIN rows :
                /\ \A j \in DOMAIN rows : diff(i) <= diff(j)
                /\ \A j \in 1..(i - 1) : diff(j) > diff(i)
    IN  rows[i0].impliedVolatility

GetAtmIv(calls, puts, current_price) ==
    IF calls = <<>> THEN Raise(ArgminError)
    ELSE IF Len(puts) > 0
    THEN [status |-> "ok",
          value |-> RDiv(RAdd(NearestIv(calls, current_price),
                              NearestIv(puts, current_price)), RI(2))]
    ELSE [status |-> "ok", value |-> NearestIv(calls, current_price)]

\* Lines 297-337 on the smoothed, discounted second derivative d2s (an array
\* over the grid) : clip, normalize, cdf, moments.
Clip(d2s) == [i \in DOMAIN d2s |-> NpMaximum(d2s[i], Zero)]

\* Normalization by the rectangle sum instead of the trapezoidal integral.
Normalize_BySum(density, strikes_interp) ==
    LET total ==
            RMul(SumTo(density, Len(density)),
                 RSub(strikes_interp[2], strikes_interp[1]))
    IN  IF RGt(total, Zero) THEN Over(density, total) ELSE density

Normalize(density, strikes_interp) ==
    LET total == Trapz(density, strikes_interp)
    IN  IF RGt(total, Zero) THEN Over(density, total) ELSE density

Cdf(density, dk) ==
    LET cdf == Scale(Cumsum(density), dk)
    IN  Over(cdf, cdf[Len(cdf)])

\* The moments.  expected_price is computed as the code computes it.  The
\* variance np.trapz((s - expected)^2 * density, s) overflows the model's
\* 32-bit integers, so only its sign is computed: every grid point has a
\* trapezoid weight of the sign of dk and density is >= 0 or NaN, hence the
\* variance is > 0 exactly when dk > 0 and some point with density > 0 lies
\* off the expected price.  sqrt(variance) and the standardized moments are
\* kept as terms: std_dev is 0 (the floor max(0, variance)) or the term
\* Sqrt("variance"), skewness and kurtosis are 0 (the std_dev = 0 default) or
\* terms naming their order.
Sqrt(v) == [sqrt |-> v]
StandardizedMoment(order, excess) == [standardized_moment |-> order, minus |-> excess]

VariancePositive(density, strikes_interp, expected) ==
    /\ RGt(strikes_interp[2], strikes_interp[1])
    /\ \E i \in DOMAIN density :
          RGt(density[i], Zero) /\ strikes_interp[i] # expected

Moments(density, strikes_interp) ==
    LET expected == Trapz(Times(strikes_interp, density), strikes_interp)
        positive == VariancePositive(density, strikes_interp, expected)
    IN  [expected_price |-> expected,
         std_dev |-> IF positive THEN Sqrt("variance") ELSE RI(0),
         skewness |-> IF positive THEN StandardizedMoment(3, 0) ELSE RI(0),
         kurtosis |-> IF positive THEN StandardizedMoment(4, 3) ELSE RI(0)]

\* extract_density.  d2 stands for the array that the spline evaluation, the
\* two np.gradient passes, the division by the discount and the Gaussian
\* filter (lines 279-295) produce on a grid of distinct points: its values
\* depend on the quoted prices through the fitted curve and are an input of
\* the model.  On a grid whose points coincide (dk = 0) np.gradient divides
\* 0 by 0 and the array is NaN throughout.
ExtractDensity(calls, puts, current_price, days_to_exp, num_points, r, d2) ==
    LET calls_clean == CallsClean(calls, current_price)
        puts_clean == PutsClean(puts, current_price)
        combined == Combined(calls, puts, current_price, days_to_exp, r)
    IN  IF Len(combined) < MinCombined THEN Raise(InsufficientData)
        ELSE
        LET strikes_interp == StrikesInterp(combined, current_price, num_points)
            points == SplinePoints(combined)
            dk == RSub(strikes_interp[2], strikes_interp[1])
            smoothed == IF dk = Zero THEN [i \in 1..num_points |-> NaN]
                        ELSE [i \in 1..num_points |-> RI(d2[i])]
            density == Normalize(Clip(smoothed), strikes_interp)
            cdf == Cdf(density, dk)
            m == Moments(density, strikes_interp)
            atm == GetAtmIv(calls_clean, puts_clean, current_price)
        IN  IF SplineUsed(points) = "none" THEN Raise(SplineError)
            ELSE IF atm.status = "raise" THEN atm
            ELSE [status |-> "ok",
                  spline |-> SplineUsed(points),
                  sigma_smooth |-> SigmaSmooth(num_points),
                  dist |-> [strikes |-> strikes_interp,
                            density |-> density,
                            cdf |-> cdf,
                            expected_price |-> m.expected_price,
                            std_dev |-> m.std_dev,
                            skewness |-> m.skewness,
                            kurtosis |-> m.kurtosis,
                            atm_iv |-> atm.value,
                            days_to_exp |-> days_to_exp]]


(***************************************************************************)
(* ImpliedDistribution queries                                             *)
(***************************************************************************)
\* np.diff(strikes) with its last element appended once more.
ForwardWidths(strikes) ==
    LET n == Len(strikes)
    IN  [i \in 1..n |->
            IF i < n THEN RSub(strikes[i + 1], strikes[i])
            ELSE RSub(strikes[n], strikes[n - 1])]

\* The range taken open at its lower end.
ProbabilityBetween_OpenBelow(dist, low, high) ==
    LET mask == {i \in DOMAIN dist.strikes :
                    RGt(dist.strikes[i], low) /\ RLe(dist.strikes[i], high)}
        dk == ForwardWidths(dist.strikes)
        masked == [i \in DOMAIN dist.strikes |->
                     IF i \in mask THEN RMul(dist.density[i], dk[i]) ELSE Zero]
    IN  IF mask = {} THEN Zero
        ELSE SumTo(masked, Len(masked))

ProbabilityBetween(dist, low, high) ==
    LET mask == {i \in DOMAIN dist.strikes :
                    RGe(dist.strikes[i], low) /\ RLe(dist.strikes[i], high)}
        dk == ForwardWidths(dist.strikes)
        masked == [i \in DOMAIN dist.strikes |->
                     IF i \in mask THEN RMul(dist.density[i], dk[i]) ELSE Zero]
    IN  IF mask = {} THEN Zero
        ELSE SumTo(masked, Len(masked))

ProbabilityAbove(dist, price) ==
    ProbabilityBetween(dist, price, dist.strikes[Len(dist.strikes)])

ProbabilityBelow(dist, price) ==
    ProbabilityBetween(dist, dist.strikes[1], price)

\* The spacing with half-width cells at the two ends, as the trapezoidal
\* rule weighs them.
Gradient_HalfEnds(a) ==
    LET n == Len(a)
    IN  [i \in 1..n |->
            IF i = 1 THEN RDiv(RSub(a[2], a[1]), RI(2))
            ELSE IF i = n THEN RDiv(RSub(a[n], a[n - 1]), RI(2))
            ELSE RDiv(RSub(a[i + 1], a[i - 1]), RI(2))]

\* np.gradient(strikes): central differences inside, one-sided at the ends.
Gradient(a) ==
    LET n == Len(a)
    IN  [i \in 1..n |->
            IF i = 1 THEN RSub(a[2], a[1])
            ELSE IF i = n THEN RSub(a[n], a[n - 1])
            ELSE RDiv(RSub(a[i + 1], a[i - 1]), RI(2))]

\* numpy's ordering for sorting and searching: NaN is above every number.
NpLess(a, b) == RLt(a, b) \/ (IsNaN(b) /\ ~IsNaN(a))

\* np.searchsorted(a, v), side='left': binary search; the result is a
\* 0-based index in 0..len(a).
RECURSIVE BinarySearchLeft(_, _, _, _)
BinarySearchLeft(a, v, lo, hi) ==
    IF lo >= hi THEN lo
    ELSE LET mid == lo + (hi - lo) \div 2
         IN  IF NpLess(a[mid + 1], v)
             THEN BinarySearchLeft(a, v, mid + 1, hi)
             ELSE BinarySearchLeft(a, v, lo, mid)

\* side='right': the index after the last entry not above v.
Searchsorted_Right(a, v) ==
    Cardinality({i \in DOMAIN a : ~NpLess(v, a[i])})

Searchsorted(a, v) == BinarySearchLeft(a, v, 0, Len(a))

IntMin(a, b) == IF a < b THEN a ELSE b
IntMax(a, b) == IF a > b THEN a ELSE b

\* The normalized cumulative that expected_move recomputes.
MoveCumsum(dist) ==
    LET cumsum == Cumsum(Times(dist.density, Gradient(dist.strikes)))
    IN  Over(cumsum, cumsum[Len(cumsum)])

\* The two bounds with the tail taken to be confidence / 2: the range
\* narrows as the confidence grows.
MoveIndices_Inverted(dist, confidence) ==
    LET cumsum == MoveCumsum(dist)
        lower_pct == RDiv(confidence, RI(2))
        upper_pct == RSub(One, lower_pct)
        n == Len(dist.strikes)
    IN  [lower_idx |-> IntMax(0, IntMin(Searchsorted(cumsum, lower_pct), n - 1)),
         upper_idx |-> IntMax(0, IntMin(Searchsorted(cumsum, upper_pct), n - 1))]

\* 0-based indices of the two bounds, after clamping.
MoveIndices(dist, confidence) ==
    LET cumsum == MoveCumsum(dist)
        lower_pct == RDiv(RSub(One, confidence), RI(2))
        upper_pct == RSub(One, lower_pct)
        n == Len(dist.strikes)
    IN  [lower_idx |-> IntMax(0, IntMin(Searchsorted(cumsum, lower_pct), n - 1)),
         upper_idx |-> IntMax(0, IntMin(Searchsorted(cumsum, upper_pct), n - 1))]

ExpectedMove(dist, confidence) ==
    LET idx == MoveIndices(dist, confidence)
    IN  <<dist.strikes[idx.lower_idx + 1], dist.strikes[idx.upper_idx + 1]>>


(***************************************************************************)
(* BlackScholes.  np.log, np.sqrt and norm.cdf are computed in fixed point *)
(* (integers in units of 1/FP); a price is returned as a rational.         *)
(***************************************************************************)
\* a * b / FP without leaving 32 bits.
MulFP(a, b) ==
    LET sign == IF (a < 0) = (b < 0) THEN 1 ELSE -1
        A == Abs(a)
        B == Abs(b)
    IN  sign * ((A \div FP) * B + DivRound((A % FP) * B, FP))

\* a / b in units of 1/FP (b > 0), without leaving 32 bits.
DivFP(a, b) ==
    LET sign == IF a < 0 THEN -1 ELSE 1
        A == Abs(a)
    IN  sign * ((A \div b) * FP + DivRound((A % b) * FP, b))

\* np.log(x) for a rational x > 0: 2 * atanh((x - 1) / (x + 1)), the series
\* to LnTerms terms.
LnTerms == 10
RECURSIVE AtanhSeries(_, _, _, _)
AtanhSeries(y2, k, power, acc) ==
    IF k > LnTerms THEN acc
    ELSE LET p == MulFP(power, y2)
         IN  AtanhSeries(y2, k + 1, p, acc + DivRound(p, 2 * k + 1))

LnFP(x) ==
    LET y == DivRound((x.n - x.d) * FP, x.n + x.d)
    IN  2 * AtanhSeries(MulFP(y, y), 1, y, y)

\* np.sqrt(x) for x >= 0: Newton's iteration on integers.
RECURSIVE NewtonSqrt(_, _)
NewtonSqrt(v, g) ==
    LET h == (g + v \div g) \div 2
    IN  IF h >= g THEN g ELSE NewtonSqrt(v, h)

SqrtFP(xfp) == IF xfp <= 0 THEN 0 ELSE NewtonSqrt(xfp * FP, xfp * FP)

\* scipy.stats.norm.cdf: the standard normal table at steps of 1/10, to four
\* places, interpolated linearly; cdf(-x) = 1 - cdf(x).
NormTable ==
    <<5000, 5398, 5793, 6179, 6554, 6915, 7257, 7580, 7881, 8159, 8413,
      8643, 8849, 9032, 9192, 9332, 9452, 9554, 9641, 9713, 9772, 9821,
      9861, 9893, 9918, 9938, 9953, 9965, 9974, 9981, 9987, 9990, 9993,
      9995, 9997, 9998, 9998, 9999, 9999, 10000, 10000>>

NormCdfFP(xfp) ==
    LET a == Abs(xfp)
        step == FP \div 10
        i == a \div step
        upper ==
            IF i + 1 >= Len(NormTable) THEN FP
            ELSE NormTable[i + 1]
                   + DivRound((NormTable[i + 2] - NormTable[i + 1]) * (a % step),
                              step)
    IN  IF xfp >= 0 THEN upper ELSE FP - upper

\* BlackScholes.d1 and d2, in fixed point.
D1(S, K, T, r, sigma) ==
    IF RLe(T, Zero) \/ RLe(sigma, Zero) THEN 0
    ELSE DivFP(LnFP(RDiv(S, K))
                 + MulFP(ToFP(r) + MulFP(ToFP(sigma), ToFP(sigma)) \div 2,
                         ToFP(T)),
               MulFP(ToFP(sigma), SqrtFP(ToFP(T))))

D2(S, K, T, r, sigma) ==
    IF RLe(T, Zero) \/ RLe(sigma, Zero) THEN 0
    ELSE D1(S, K, T, r, sigma) - MulFP(ToFP(sigma), SqrtFP(ToFP(T)))

\* The expiry test taken as T < 0.
CallPrice_StrictExpiry(S, K, T, r, sigma) ==
    IF RLt(T, Zero) THEN PyMax(Zero, RSub(S, K))
    ELSE LET d1 == D1(S, K, T, r, sigma)
             d2 == D2(S, K, T, r, sigma)
         IN  Q(MulFP(ToFP(S), NormCdfFP(d1))
                 - MulFP(MulFP(ToFP(K), ExpFP(ToFP(RNeg(RMul(r, T))))),
                         NormCdfFP(d2)),
               FP)

CallPrice(S, K, T, r, sigma) ==
    IF RLe(T, Zero) THEN PyMax(Zero, RSub(S, K))
    ELSE LET d1 == D1(S, K, T, r, sigma)
             d2 == D2(S, K, T, r, sigma)
         IN  Q(MulFP(ToFP(S), NormCdfFP(d1))
                 - MulFP(MulFP(ToFP(K), ExpFP(ToFP(RNeg(RMul(r, T))))),
                         NormCdfFP(d2)),
               FP)

\* put_price without the discount factor on the strike.
PutPrice_Undiscounted(S, K, T, r, sigma) ==
    IF RLe(T, Zero) THEN PyMax(Zero, RSub(K, S))
    ELSE LET d1 == D1(S, K, T, r, sigma)
             d2 == D2(S, K, T, r, sigma)
         IN  Q(MulFP(ToFP(K), NormCdfFP(-d2)) - MulFP(ToFP(S), NormCdfFP(-d1)),
               FP)

PutPrice(S, K, T, r, sigma) ==
    IF RLe(T, Zero) THEN PyMax(Zero, RSub(K, S))
    ELSE LET d1 == D1(S, K, T, r, sigma)
             d2 == D2(S, K, T, r, sigma)
         IN  Q(MulFP(MulFP(ToFP(K), ExpFP(ToFP(RNeg(RMul(r, T))))),
                     NormCdfFP(-d2))
                 - MulFP(ToFP(S), NormCdfFP(-d1)),
               FP)


\* scipy.stats.norm.pdf: exp(-x^2 / 2) / sqrt(2 pi); beyond 5 standard
\* deviations it is below 1/FP.
InvSqrtTwoPi == 3989
NormPdfFP(xfp) ==
    IF Abs(xfp) >= 5 * FP THEN 0
    ELSE MulFP(InvSqrtTwoPi, ExpFP(-(MulFP(xfp, xfp) \div 2)))

ZeroGreeks == [delta |-> Zero, gamma |-> Zero, theta |-> Zero, vega |-> Zero,
               rho |-> Zero]

\* BlackScholes.greeks with the degenerate test left out of the volatility.
Greeks_TimeOnly(S, K, T, r, sigma, option_type) ==
    IF RLe(T, Zero) THEN ZeroGreeks
    ELSE [ZeroGreeks EXCEPT !.delta = Q(NormCdfFP(D1(S, K, T, r, sigma)), FP)]

\* BlackScholes.greeks
Greeks(S, K, T, r, sigma, option_type) ==
    IF RLe(T, Zero) \/ RLe(sigma, Zero) THEN ZeroGreeks
    ELSE LET d1 == D1(S, K, T, r, sigma)
             d2 == D2(S, K, T, r, sigma)
             sqrt_T == SqrtFP(ToFP(T))
             pdf_d1 == NormPdfFP(d1)
             cdf_d1 == NormCdfFP(d1)
             cdf_d2 == NormCdfFP(d2)
             Sfp == ToFP(S)
             Kfp == ToFP(K)
             sfp == ToFP(sigma)
             disc == ExpFP(ToFP(RNeg(RMul(r, T))))
             decay == -DivFP(MulFP(MulFP(Sfp, pdf_d1), sfp), 2 * sqrt_T)
             carry == MulFP(MulFP(ToFP(r), MulFP(Kfp, disc)),
                            IF option_type = "call" THEN cdf_d2
                            ELSE NormCdfFP(-d2))
             rhoAbs == MulFP(MulFP(MulFP(Kfp, ToFP(T)), disc),
                             IF option_type = "call" THEN cdf_d2
                             ELSE NormCdfFP(-d2))
         IN  [delta |-> IF option_type = "call" THEN Q(cdf_d1, FP)
                        ELSE Q(cdf_d1 - FP, FP),
              gamma |-> Q(DivFP(pdf_d1, MulFP(MulFP(Sfp, sfp), sqrt_T)), FP),
              theta |-> IF option_type = "call"
                        THEN Q(decay - carry, 365 * FP)
                        ELSE Q(decay + carry, 365 * FP),
              vega |-> Q(MulFP(MulFP(Sfp, pdf_d1), sqrt_T), 100 * FP),
              rho |-> IF option_type = "call" THEN Q(rhoAbs, 100 * FP)
                      ELSE Q(-rhoAbs, 100 * FP)]

\* OptionsAnalyzer._add_greeks: one row of Greeks per chain row.  A row's
\* impliedVolatility NaN fails sigma > 0 like a volatility <= 0.
AddGreeks(options, S, T, r, option_type) ==
    [i \in DOMAIN options |->
        LET K == options[i].strike
            sigma == options[i].impliedVolatility
        IN  [strike |-> K, impliedVolatility |-> sigma,
             greeks |-> IF RGt(sigma, Zero) /\ RGt(T, Zero)
                        THEN Greeks(S, K, T, r, sigma, option_type)
                        ELSE ZeroGreeks]]


\* BlackScholes.implied_volatility.  q holds the arguments: price, S, K, T,
\* r, option_type.  The objective at a volatility of sigma_fp / FP:
Objective(q, sigma_fp) ==
    RSub(IF q.option_type = "call"
         THEN CallPrice(q.S, q.K, q.T, q.r, Q(sigma_fp, FP))
         ELSE PutPrice(q.S, q.K, q.T, q.r, Q(sigma_fp, FP)),
         q.price)

VolLow == 100         \* 0.01, in units of 1/FP
VolHigh == 50000      \* 5.0
VolTol == 1           \* the bracket width at which the search stops

\* scipy.optimize.brentq narrows a bracket whose ends have opposite signs
\* and returns an end of it once it is VolTol wide; here by bisection.
RECURSIVE Bisect(_, _, _)
Bisect(q, lo, hi) ==
    IF hi - lo <= VolTol
    THEN IF RLe(RNeg(Objective(q, lo)), Objective(q, hi)) THEN lo ELSE hi
    ELSE LET mid == (lo + hi) \div 2
             fm == Objective(q, mid)
             flo == Objective(q, lo)
         IN  IF fm = Zero THEN mid
             ELSE IF RLt(fm, Zero) = RLt(flo, Zero) THEN Bisect(q, mid, hi)
             ELSE Bisect(q, lo, mid)

\* brentq raises ValueError when f(a) and f(b) have the same sign.
Brentq(q, a, b) ==
    LET fa == Objective(q, a)
        fb == Objective(q, b)
    IN  IF fa = Zero THEN [raised |-> FALSE, root |-> a]
        ELSE IF fb = Zero THEN [raised |-> FALSE, root |-> b]
        ELSE IF RLt(fa, Zero) = RLt(fb, Zero)
        THEN [raised |-> TRUE, root |-> 0]
        ELSE [raised |-> FALSE, root |-> Bisect(q, a, b)]

\* The same without the early return at expiry.
ImpliedVolatility_NoExpiryTest(price, S, K, T, r, option_type) ==
    LET q == [price |-> price, S |-> S, K |-> K, T |-> T, r |-> r,
              option_type |-> option_type]
        iv == Brentq(q, VolLow, VolHigh)
    IN  IF iv.raised THEN NaN ELSE Q(iv.root, FP)

ImpliedVolatility(price, S, K, T, r, option_type) ==
    IF RLe(T, Zero) THEN Zero
    ELSE LET q == [price |-> price, S |-> S, K |-> K, T |-> T, r |-> r,
                   option_type |-> option_type]
             iv == Brentq(q, VolLow, VolHigh)
         IN  IF iv.raised THEN NaN ELSE Q(iv.root, FP)


(***************************************************************************)
(* State                                                                   *)
(***************************************************************************)
VARIABLES
    calls,          \* the call side of the option chain handed to the extractor
    puts,           \* the put side
    current_price,  \* the underlying's spot price
    days_to_exp,    \* days until expiration
    r,              \* BreedenLitzenberger.r, the risk-free rate
    pc,             \* "ready" | "returned" | "raised" : where the caller is
    result,         \* what extract_density returned or raised
    num_points,     \* the num_points argument of the extract_density call
    created,        \* the ImpliedDistribution as it was constructed
    answer,         \* the last query and what it returned
    priced,         \* the last Black-Scholes pricing call and what it returned
    memo,           \* the fits scipy has computed so far: what it was given
                    \* |-> the smoothed second derivative it returned
    first,          \* arguments |-> what the first extraction with them
                    \* returned, and the instance it was called on
    instance,       \* the BreedenLitzenberger instance in use
    analysis,       \* what the last analyze_ticker returned or raised
    scanned,        \* what the last scan_ticker returned
    scan_history,   \* OptionsScanner.scan_history of the ticker
    iv_history,     \* OptionsScanner.iv_history of the ticker
    positions,      \* Portfolio.positions
    portfolio_greeks, \* what the last get_portfolio_greeks returned
    now,            \* datetime.now(), in seconds
    analytics_cache,  \* CentralPortfolio._analytics_cache['analytics']
    cache_timestamp,  \* CentralPortfolio._cache_timestamp
    analyzed,       \* the last analyze_portfolio call and what it returned
    portfolio_file, \* the portfolio file: whether it exists, the positions in it
    mutation        \* the last CentralPortfolio mutation call and how it ended

\* What lies outside the extractor, its queries and the pricing functions.
repeatvars == <<memo, first, instance>>
scanvars == <<analysis, scanned, scan_history, iv_history>>
foliovars == <<positions, portfolio_greeks>>
cachevars == <<now, analytics_cache, cache_timestamp, analyzed>>
filevars == <<portfolio_file, mutation>>
appvars == <<repeatvars, scanvars, foliovars, cachevars, filevars>>

vars == <<calls, puts, current_price, days_to_exp, r, pc, result, num_points,
          created, answer, priced, appvars>>

None == [status |-> "none"]
NoFile == [exists |-> FALSE, positions |-> <<>>]
NoAnswer == [op |-> "none"]
NotPriced == [op |-> "none"]

(***************************************************************************)
(* The option chains the model is run on.  Strikes come from a ladder of   *)
(* adjacent strikes and one far strike; each side holds any subset of      *)
(* them, at most MaxRows quotes in all.  One quote of a chain may be       *)
(* defective or repeated.                                                  *)
(***************************************************************************)
MaxRows == 5
MaxPoints == 3

Strikes == {13, 14, 15, 16, 17, 24}
Spots == {12, 40}
Sides == {"call", "put"}
DefaultRate == Q(5, 100)
DaysToExp == {30}

Intrinsic(side, K, S) ==
    IF side = "call" THEN IntMax(S - K, 0) ELSE IntMax(K - S, 0)

Quote(side, K, S, kind) ==
    LET last == IF kind = "zero_price" THEN Zero
                ELSE IF kind = "cheap" THEN Q(1, 4)
                ELSE RI(Intrinsic(side, K, S) + 1)
        iv == IF kind = "zero_iv" THEN Zero
              ELSE IF kind = "absurd_iv" THEN RI(5)
              ELSE IF side = "call" THEN Q(20 + Abs(K - 15), 100)
              ELSE Q(25 + Abs(K - 14), 100)
    IN  [strike |-> K, lastPrice |-> last,
         bid |-> IF kind = "nan_quote" THEN NaN
                 ELSE IF kind = "cheap" THEN last ELSE RSub(last, Q(1, 2)),
         ask |-> IF kind = "nan_quote" THEN NaN
                 ELSE IF kind = "cheap" THEN last ELSE RAdd(last, One),
         impliedVolatility |-> iv]

Variants ==
    {[cols |-> c, kind |-> "good", side |-> "call", dup |-> FALSE] : c \in BOOLEAN}
    \cup {[cols |-> TRUE, kind |-> "absurd_iv", side |-> "call", dup |-> FALSE],
          [cols |-> TRUE, kind |-> "nan_quote", side |-> "call", dup |-> FALSE],
          [cols |-> TRUE, kind |-> "zero_price", side |-> "put", dup |-> FALSE],
          [cols |-> TRUE, kind |-> "cheap", side |-> "put", dup |-> FALSE]}
    \cup {[cols |-> TRUE, kind |-> "good", side |-> sd, dup |-> TRUE] : sd \in Sides}

\* One side of a chain: the quotes at the strikes ks, in ascending order; the
\* variant v changes or repeats the first quote of its side.
Side(side, ks, S, v) ==
    LET k == SetToSortedSeq(ks)
        rows == [i \in DOMAIN k |->
                    Quote(side, k[i], S,
                          IF i = 1 /\ v.side = side THEN v.kind ELSE "good")]
        again == [rows[1] EXCEPT !.lastPrice = RAdd(rows[1].lastPrice, One),
                                 !.bid = RAdd(rows[1].bid, One),
                                 !.ask = RAdd(rows[1].ask, One)]
    IN  [has_bid |-> v.cols, has_ask |-> v.cols,
         rows |-> IF v.dup /\ v.side = side /\ rows # <<>>
                  THEN <<rows[1], again>> \o Tail(rows) ELSE rows]

Placements ==
    {P \in SUBSET (Sides \X Strikes) : Cardinality(P) <= MaxRows}

InitChain(P, S, v) ==
    /\ calls = Side("call", {K \in Strikes : <<"call", K>> \in P}, S, v)
    /\ puts = Side("put", {K \in Strikes : <<"put", K>> \in P}, S, v)
    /\ current_price = S
    /\ days_to_exp \in DaysToExp
    /\ r = DefaultRate
    /\ pc = "ready"
    /\ result = None
    /\ num_points = 0
    /\ created = None
    /\ answer = NoAnswer
    /\ priced = NotPriced
    /\ memo = <<>>
    /\ first = <<>>
    /\ instance = 1
    /\ analysis = None
    /\ scanned = None
    /\ scan_history = <<>>
    /\ iv_history = <<>>
    /\ positions = <<>>
    /\ portfolio_greeks = None
    /\ now = 0
    /\ analytics_cache = None
    /\ cache_timestamp = None
    /\ analyzed = None
    /\ portfolio_file = NoFile
    /\ mutation = None

Init == \E P \in Placements, S \in Spots, v \in Variants : InitChain(P, S, v)

(***************************************************************************)
(* Actions                                                                 *)
(***************************************************************************)
RawValues == {-1, 1, 2}

\* A call of extract_density(calls, puts, current_price, days_to_exp,
\* num_points) : it returns an ImpliedDistribution or raises.
Extract(n, d2) ==
    /\ pc = "ready"
    /\ num_points' = n
    /\ result' = ExtractDensity(calls, puts, current_price, days_to_exp, n, r, d2)
    /\ pc' = IF result'.status = "ok" THEN "returned" ELSE "raised"
    /\ created' = result'
    /\ UNCHANGED <<calls, puts, current_price, days_to_exp, r, answer, priced,
                   appvars>>

\* The second derivative flat and positive over the grid.
ExtractFlat ==
    \E n \in 2..MaxPoints : Extract(n, [i \in 1..n |-> 1])

Next == ExtractFlat

Spec == Init /\ [][Next]_vars



(***************************************************************************)
(* The distributions and their queries: SpecDist.  The chain is the full   *)
(* ladder of calls, seen from a spot below it and from a spot more than    *)
(* twice above it; the second derivative takes every value of RawValues at *)
(* every grid point.                                                       *)
(***************************************************************************)
Plain == [cols |-> TRUE, kind |-> "good", side |-> "call", dup |-> FALSE]
Ladder == Strikes \ {24}

InitDist == \E S \in Spots : InitChain({<<"call", K>> : K \in Ladder}, S, Plain)

ExtractAny ==
    \E n \in 2..MaxPoints : \E d2 \in [1..n -> RawValues] : Extract(n, d2)

\* The prices a query is asked about: every grid point and some levels
\* below, inside and above the grids.
PriceLevels == {15, 19, 30}
QueryPoints(dist) == Range(dist.strikes) \cup {RI(k) : k \in PriceLevels}
Askable == IF pc = "returned" THEN QueryPoints(result.dist) ELSE {}
Confidences == {Zero, Q(1, 2), Q(68, 100), Q(95, 100), One}

Query(op, args, value) ==
    /\ pc = "returned"
    /\ answer' = [op |-> op, args |-> args, value |-> value]
    /\ UNCHANGED <<calls, puts, current_price, days_to_exp, r, pc, result,
                   num_points, created, priced, appvars>>

QueryBetween(low, high) ==
    Query("probability_between", <<low, high>>,
          ProbabilityBetween(result.dist, low, high))

QueryAbove(price) ==
    Query("probability_above", <<price>>, ProbabilityAbove(result.dist, price))

QueryBelow(price) ==
    Query("probability_below", <<price>>, ProbabilityBelow(result.dist, price))

\* expected_move storing its normalized cumulative over self.density.
QueryExpectedMove_InPlace(confidence) ==
    /\ pc = "returned"
    /\ answer' = [op |-> "expected_move", args |-> <<confidence>>,
                  value |-> ExpectedMove(result.dist, confidence)]
    /\ result' = [result EXCEPT !.dist.density = MoveCumsum(result.dist)]
    /\ UNCHANGED <<calls, puts, current_price, days_to_exp, r, pc, num_points,
                   created, priced, appvars>>

QueryExpectedMove(confidence) ==
    Query("expected_move", <<confidence>>, ExpectedMove(result.dist, confidence))

NextDist ==
    \/ ExtractAny
    \/ \E low \in Askable, high \in Askable : QueryBetween(low, high)
    \/ \E price \in Askable : QueryAbove(price)
    \/ \E price \in Askable : QueryBelow(price)
    \/ \E confidence \in Confidences : QueryExpectedMove(confidence)

SpecDist == InitDist /\ [][NextDist]_vars

(***************************************************************************)
(* Black-Scholes pricing: SpecBS.  The pricing functions are static; each  *)
(* call is one step, from any arguments.                                   *)
(***************************************************************************)
BSSpots == {RI(10), RI(12), RI(15), RI(40)}
BSStrikes == {RI(12), RI(15), RI(30)}
BSTimes == {RI(-1), Zero, Q(1, 12), One}
BSRates == {Q(-1, 100), Zero, DefaultRate}
BSVols == {Q(-1, 5), Zero, Q(1, 5), Q(1, 2)}

InitBS == InitChain({}, 12, Plain)

Priced(op, S, K, T, rate, sigma, value) ==
    /\ priced = NotPriced
    /\ priced' = [op |-> op, S |-> S, K |-> K, T |-> T, r |-> rate,
                  sigma |-> sigma, value |-> value]
    /\ UNCHANGED <<calls, puts, current_price, days_to_exp, r, pc, result,
                   num_points, created, answer, appvars>>

PriceCall(S, K, T, rate, sigma) ==
    Priced("call_price", S, K, T, rate, sigma, CallPrice(S, K, T, rate, sigma))

PricePut(S, K, T, rate, sigma) ==
    Priced("put_price", S, K, T, rate, sigma, PutPrice(S, K, T, rate, sigma))

ComputeGreeks(S, K, T, rate, sigma, option_type) ==
    /\ priced = NotPriced
    /\ priced' = [op |-> "greeks", S |-> S, K |-> K, T |-> T, r |-> rate,
                  sigma |-> sigma, option_type |-> option_type,
                  value |-> Greeks(S, K, T, rate, sigma, option_type)]
    /\ UNCHANGED <<calls, puts, current_price, days_to_exp, r, pc, result,
                   num_points, created, answer, appvars>>

\* The chain rows _add_greeks is given: a strike and an implied volatility,
\* which the data provider may report as zero or missing.
BSRows ==
    {[strike |-> K, impliedVolatility |-> iv] :
        K \in BSStrikes, iv \in BSVols \cup {NaN}}
BSChains == {<<a>> : a \in BSRows} \cup {<<a, b>> : a \in BSRows, b \in BSRows}

AddGreeksTo(options, S, T, option_type) ==
    /\ priced = NotPriced
    /\ priced' = [op |-> "_add_greeks", options |-> options, S |-> S, T |-> T,
                  option_type |-> option_type,
                  value |-> AddGreeks(options, S, T, r, option_type)]
    /\ UNCHANGED <<calls, puts, current_price, days_to_exp, r, pc, result,
                   num_points, created, answer, appvars>>

\* Market prices handed to the inversion: below, inside and above what the
\* model attains.
MarketPrices == {Zero, Q(1, 2), RI(2), RI(28), RI(60)}

InvertPrice(price, S, K, T, rate, option_type) ==
    /\ priced = NotPriced
    /\ priced' = [op |-> "implied_volatility", price |-> price, S |-> S,
                  K |-> K, T |-> T, r |-> rate, option_type |-> option_type,
                  value |-> ImpliedVolatility(price, S, K, T, rate, option_type)]
    /\ UNCHANGED <<calls, puts, current_price, days_to_exp, r, pc, result,
                   num_points, created, answer, appvars>>

\* A price generated by the model at a volatility strictly inside the
\* bracket, handed back to the inversion.
RoundTripVols == {Q(1, 5), Q(1, 2), RI(2)}

RoundTrip(S, K, T, rate, sigma, option_type) ==
    LET price == IF option_type = "call" THEN CallPrice(S, K, T, rate, sigma)
                 ELSE PutPrice(S, K, T, rate, sigma)
    IN  /\ priced = NotPriced
        /\ priced' = [op |-> "round_trip", price |-> price, S |-> S, K |-> K,
                      T |-> T, r |-> rate, sigma |-> sigma,
                      option_type |-> option_type,
                      value |-> ImpliedVolatility(price, S, K, T, rate,
                                                  option_type)]
        /\ UNCHANGED <<calls, puts, current_price, days_to_exp, r, pc, result,
                       num_points, created, answer, appvars>>

NextBS ==
    \/ \E S \in BSSpots, K \in BSStrikes, T \in BSTimes, rate \in BSRates,
          sigma \in BSVols :
           \/ PriceCall(S, K, T, rate, sigma)
           \/ PricePut(S, K, T, rate, sigma)
           \/ \E option_type \in Sides :
                 ComputeGreeks(S, K, T, rate, sigma, option_type)
    \/ \E options \in BSChains, S \in BSSpots, T \in BSTimes,
          option_type \in Sides :
           AddGreeksTo(options, S, T, option_type)
    \/ \E price \in MarketPrices, S \in BSSpots, K \in BSStrikes,
          T \in BSTimes, rate \in BSRates, option_type \in Sides :
           InvertPrice(price, S, K, T, rate, option_type)
    \/ \E S \in BSSpots, K \in BSStrikes, T \in BSTimes, rate \in BSRates,
          sigma \in RoundTripVols, option_type \in Sides :
           RoundTrip(S, K, T, rate, sigma, option_type)

SpecBS == InitBS /\ [][NextBS]_vars


(***************************************************************************)
(* Repeated extractions: SpecRepeat.  extract_density is called again and  *)
(* again, with any of a few argument lists, on the instance in use or on   *)
(* a new instance built with the same rate.  The spline fit, the gradients *)
(* and the Gaussian filter are functions of what they are given: the array *)
(* they return for an input is chosen when the input is first met and kept *)
(* in memo.                                                                *)
(***************************************************************************)
\* What the second derivative of lines 262-295 is computed from: the points
\* and the grid are functions of the arguments and of the instance's rate,
\* the only field an instance has.
FitInput(c, p, S, T, n, rate) ==
    [calls |-> c, puts |-> p, current_price |-> S, days_to_exp |-> T,
     num_points |-> n, r |-> rate]

\* A fit that forgets what it returned for the same input before.
Fit_Fresh(input, d2) == d2

Fit(input, d2) == IF input \in DOMAIN memo THEN memo[input] ELSE d2

RepeatChains ==
    {{<<"call", K>> : K \in Ladder},
     {<<"call", K>> : K \in Ladder \ {17}} \cup {<<"put", 17>>}}
RepeatSpots == {12}
Instances == {1, 2}
Shapes(n) == {[i \in 1..n |-> 1], [i \in 1..n |-> i]}

ArgsNow == <<calls, puts, current_price, days_to_exp, num_points>>

ExtractAgain(P, S, n, d2) ==
    /\ calls' = Side("call", {K \in Strikes : <<"call", K>> \in P}, S, Plain)
    /\ puts' = Side("put", {K \in Strikes : <<"put", K>> \in P}, S, Plain)
    /\ current_price' = S
    /\ num_points' = n
    /\ UNCHANGED <<days_to_exp, r, answer, priced, instance, scanvars, foliovars,
                   cachevars, filevars>>
    /\ LET input == FitInput(calls', puts', S, days_to_exp, n, r)
           known == input \in DOMAIN memo
       IN  /\ result' = ExtractDensity(calls', puts', S, days_to_exp, n, r,
                                       Fit(input, d2))
           /\ memo' = IF known THEN memo ELSE memo @@ (input :> d2)
    /\ created' = result'
    /\ pc' = IF result'.status = "ok" THEN "returned" ELSE "raised"
    /\ first' = IF ArgsNow' \in DOMAIN first THEN first
                ELSE first @@ (ArgsNow' :> [result |-> result',
                                            instance |-> instance])

\* BreedenLitzenberger(risk_free_rate = rate) with the rate of the instance
\* in use; nothing has been extracted with the new instance yet.
NewInstance(rate) ==
    /\ instance + 1 \in Instances
    /\ instance' = instance + 1
    /\ r' = rate
    /\ pc' = "ready"
    /\ result' = None
    /\ UNCHANGED <<calls, puts, current_price, days_to_exp, num_points, created,
                   answer, priced, memo, first, scanvars, foliovars, cachevars,
                   filevars>>

InitRepeat == InitChain({<<"call", K>> : K \in Ladder}, 12, Plain)

NextRepeat ==
    \/ \E P \in RepeatChains, S \in RepeatSpots, n \in (MaxPoints - 1)..MaxPoints :
          \E d2 \in Shapes(n) : ExtractAgain(P, S, n, d2)
    \/ NewInstance(r)

SpecRepeat == InitRepeat /\ [][NextRepeat]_vars


(***************************************************************************)
(* The application layer: OptionsAnalyzer.analyze_ticker and               *)
(* OptionsScanner.scan_ticker, SpecScan.  The chain of the ticker is the   *)
(* one the market data source delivers: it has the strike, lastPrice and   *)
(* impliedVolatility columns and, here, no volume or openInterest column.  *)
(* Alert texts are not modelled.                                           *)
(***************************************************************************)
NoOptions == "No options available"

\* The rows _add_greeks reads: strike and implied volatility as floats.
FloatRows(options) ==
    [i \in DOMAIN options.rows |->
        [strike |-> RI(options.rows[i].strike),
         impliedVolatility |-> options.rows[i].impliedVolatility]]

PositiveIv(row) == RGt(row.impliedVolatility, Zero)

\* _extract_iv_surface: the quotes of both sides with a positive implied
\* volatility, by strike.  Of the frames with the Greeks it reads the strike
\* and impliedVolatility columns, which _add_greeks leaves as they were.
SurfaceSide(options, type, S) ==
    [i \in DOMAIN options.rows |->
        [strike |-> options.rows[i].strike,
         impliedVolatility |-> options.rows[i].impliedVolatility,
         type |-> type,
         moneyness |-> Q(options.rows[i].strike, S)]]

ExtractIvSurface(c, p, S) ==
    SortByStrike(SelectSeq(SurfaceSide(c, "call", S) \o SurfaceSide(p, "put", S),
                           PositiveIv))

\* The k-th smallest of a sequence of floats without NaN.
Ranked(a, k) ==
    LET before(i) ==
            Cardinality({j \in DOMAIN a :
                            RLt(a[j], a[i]) \/ (a[j] = a[i] /\ j < i)})
    IN  a[CHOOSE i \in DOMAIN a : before(i) = k - 1]

\* Series.median()
Median(a) ==
    IF Len(a) % 2 = 1 THEN Ranked(a, (Len(a) + 1) \div 2)
    ELSE RDiv(RAdd(Ranked(a, Len(a) \div 2), Ranked(a, Len(a) \div 2 + 1)), RI(2))

\* Series.std(), the sample standard deviation: NaN for one value, and kept as
\* a term unless the values are all equal.
Std(a) ==
    IF Len(a) = 1 THEN NaN
    ELSE IF \A i \in DOMAIN a : a[i] = a[1] THEN Zero
    ELSE Sqrt("iv variance")

\* x * 100 / current_price for a standard deviation x, a float or a term.
PercentOf(std_dev, S) ==
    IF std_dev = RI(0) THEN Zero ELSE [percent_of |-> std_dev, over |-> S]

\* The positive implied volatilities of both sides.
AllIv(c, p) ==
    LET ivs == [i \in DOMAIN c.rows |-> c.rows[i].impliedVolatility]
               \o [i \in DOMAIN p.rows |-> p.rows[i].impliedVolatility]
        Positive(v) == RGt(v, Zero)
    IN  SelectSeq(ivs, Positive)

\* _calculate_summary.  Of the frames with the Greeks it reads the
\* impliedVolatility column.
CalculateSummary(c, p, S, impl_dist) ==
    LET some == Len(AllIv(c, p)) > 0
        flows == [put_call_ratio |-> Zero, call_oi |-> Zero, put_oi |-> Zero,
                  total_oi |-> Zero,
                  iv_mean |-> IF some
                              THEN RDiv(SumTo(AllIv(c, p), Len(AllIv(c, p))),
                                        RI(Len(AllIv(c, p))))
                              ELSE Zero,
                  iv_median |-> IF some THEN Median(AllIv(c, p)) ELSE Zero,
                  iv_std |-> IF some THEN Std(AllIv(c, p)) ELSE Zero]
    IN  IF impl_dist # None
        THEN flows @@
             [expected_price |-> impl_dist.expected_price,
              expected_move |-> impl_dist.std_dev,
              expected_move_pct |-> PercentOf(impl_dist.std_dev, S),
              skewness |-> impl_dist.skewness,
              kurtosis |-> impl_dist.kurtosis,
              atm_iv |-> impl_dist.atm_iv,
              prob_above_current |-> ProbabilityAbove(impl_dist, RI(S)),
              prob_below_current |-> ProbabilityBelow(impl_dist, RI(S)),
              range_1sigma |-> ExpectedMove(impl_dist, Q(68, 100)),
              range_2sigma |-> ExpectedMove(impl_dist, Q(95, 100))]
        ELSE flows

\* The call of extract_density that analyze_ticker makes, as a step of the
\* extractor: what it returns or raises is held in result.
Extraction(expirations, n, d2) ==
    IF expirations = 0
    THEN UNCHANGED <<num_points, result, pc, created>>
    ELSE /\ num_points' = n
         /\ result' = ExtractDensity(calls, puts, current_price,
                                     IntMax(1, days_to_exp), n, r, d2)
         /\ pc' = IF result'.status = "ok" THEN "returned" ELSE "raised"
         /\ created' = result'

\* analyze_ticker, given what the market data source delivers (the number
\* of expirations, the chain of the chosen expiration, the last close, the
\* days to the expiration) and what its call of extract_density returned or
\* raised.
AnalyzeTicker(expirations, extracted, c, p, S, days, rate) ==
    IF expirations = 0 THEN Raise(NoOptions)
    ELSE
    LET days_to_expiry == IntMax(1, days)
        T == YearFraction(days_to_expiry)
        impl_dist == IF extracted.status = "ok" THEN extracted.dist ELSE None
    IN  [status |-> "ok",
         current_price |-> S,
         days_to_exp |-> days_to_expiry,
         implied_distribution |-> impl_dist,
         calls |-> AddGreeks(FloatRows(c), RI(S), T, rate, "call"),
         puts |-> AddGreeks(FloatRows(p), RI(S), T, rate, "put"),
         iv_surface |-> ExtractIvSurface(c, p, S),
         summary |-> CalculateSummary(c, p, S, impl_dist)]

\* The distribution metrics of a scan that fall back to nothing at all.
DistributionMetrics_NoDefault(impl_dist, S) ==
    [expected_move_pct |-> Zero, skewness |-> Zero, prob_up |-> Zero,
     prob_down |-> Zero]

\* The distribution metrics of a scan, lines 192-214.
DistributionMetrics(impl_dist, S) ==
    IF impl_dist # None
    THEN [expected_move_pct |-> PercentOf(impl_dist.std_dev, S),
          skewness |-> impl_dist.skewness,
          prob_up |-> ProbabilityAbove(impl_dist, RI(S)),
          prob_down |-> ProbabilityBelow(impl_dist, RI(S))]
    ELSE [expected_move_pct |-> Zero, skewness |-> Zero, prob_up |-> Q(1, 2),
          prob_down |-> Q(1, 2)]

\* _get_iv_percentile over the history that already holds the current value.
MinHistory == 5
GetIvPercentile(history, current_iv) ==
    IF Len(history) < MinHistory THEN RI(50)
    ELSE RMul(RDiv(RI(Cardinality({i \in DOMAIN history : RLt(history[i], current_iv)})),
                   RI(Len(history))), RI(100))

\* _calculate_changes: against the scan before the last stored one.  The
\* skewness change is a float only when both skewnesses are floats.
CalculateChanges(history, current_iv, current_skew) ==
    IF Len(history) < 2 THEN <<None, None>>
    ELSE LET prev == history[Len(history) - 1]
         IN  <<RSub(current_iv, prev.atm_iv),
               IF current_skew = prev.skewness THEN Zero
               ELSE [minus |-> prev.skewness, from |-> current_skew]>>

HistoryKept == 100

\* The ScanResult of an analysis.
ScanResultOf(results, history) ==
    LET impl_dist == results.implied_distribution
        summary == results.summary
        atm_iv == IF impl_dist # None THEN impl_dist.atm_iv
                  ELSE IF "atm_iv" \in DOMAIN summary THEN summary.atm_iv ELSE Zero
        metrics == DistributionMetrics(impl_dist, results.current_price)
        changes == CalculateChanges(history, atm_iv, metrics.skewness)
    IN  [current_price |-> results.current_price,
         expected_move_pct |-> metrics.expected_move_pct,
         atm_iv |-> atm_iv,
         skewness |-> metrics.skewness,
         prob_up |-> metrics.prob_up,
         prob_down |-> metrics.prob_down,
         put_call_ratio |-> Zero,
         total_volume |-> 0,
         total_oi |-> 0,
         volume_oi_ratio |-> Zero,
         iv_percentile |-> GetIvPercentile(Append(iv_history, atm_iv), atm_iv),
         iv_change |-> changes[1],
         skew_change |-> changes[2]]

MaxScans == 3

\* scan_ticker
ScanTicker(expirations, n, d2) ==
    /\ Len(scan_history) < MaxScans
    /\ Extraction(expirations, n, d2)
    /\ analysis' = AnalyzeTicker(expirations, result', calls, puts, current_price,
                                 days_to_exp, r)
    /\ IF analysis'.status = "raise"
       THEN /\ scanned' = None
            /\ UNCHANGED <<scan_history, iv_history>>
       ELSE /\ scanned' = ScanResultOf(analysis', scan_history)
            /\ iv_history' = Append(iv_history, scanned'.atm_iv)
            /\ scan_history' =
                  LET all == Append(scan_history, scanned')
                  IN  SubSeq(all, IntMax(1, Len(all) - HistoryKept + 1), Len(all))
    /\ UNCHANGED <<calls, puts, current_price, days_to_exp, r, answer, priced,
                   repeatvars, foliovars, cachevars, filevars>>

ScanPlacements ==
    {P \in Placements :
        /\ P \subseteq ({"call"} \X Strikes) \cup {<<"put", 15>>}
        /\ Cardinality(P) >= MaxRows - 1}

ScanVariants == {v \in Variants : v.cols /\ ~v.dup}

InitScan == \E P \in ScanPlacements, v \in ScanVariants : InitChain(P, 12, v)

NextScan ==
    \E expirations \in {0, 1}, n \in {MaxPoints} :
        ScanTicker(expirations, n, [i \in 1..n |-> 1])

SpecScan == InitScan /\ [][NextScan]_vars


(***************************************************************************)
(* Portfolio: SpecPortfolio.  Positions are added and the portfolio Greeks *)
(* are asked for.  One ticker has options listed for two expirations, with *)
(* the same quotes at both; another has no options listed.  Every change   *)
(* of the positions is saved to the portfolio file.                        *)
(***************************************************************************)
\* Days to each listed expiration of the ticker with options, nearest first.
Expirations == <<30, 60>>
Listed(ticker) == IF ticker = "AAA" THEN Len(Expirations) ELSE 0

Quantities == {2, -1}
HeldStrikes == {15, 20}
PositionKinds ==
    {[ticker |-> "AAA", position_type |-> "stock", quantity |-> q] :
        q \in Quantities}
    \cup {[ticker |-> "AAA", position_type |-> "call", quantity |-> 2,
           strike |-> K, expiration |-> e] :
            K \in HeldStrikes, e \in DOMAIN Expirations}
    \cup {[ticker |-> "AAA", position_type |-> "put", quantity |-> -1,
           strike |-> 15, expiration |-> e] : e \in DOMAIN Expirations}
    \cup {[ticker |-> "NOPT", position_type |-> "call", quantity |-> 2,
           strike |-> 15, expiration |-> 1]}

\* Position.to_dict: every field of the dataclass, None (null in the file)
\* for the strike and expiration a stock does not have.  A null is <<>>, a
\* value v is <<v>>.
ToDict(pos) ==
    [ticker |-> pos.ticker, position_type |-> pos.position_type,
     quantity |-> pos.quantity,
     strike |-> IF "strike" \in DOMAIN pos THEN <<pos.strike>> ELSE <<>>,
     expiration |-> IF "expiration" \in DOMAIN pos THEN <<pos.expiration>>
                    ELSE <<>>]

\* Position.from_dict, Position(**data): TypeError when a field without a
\* default is missing or a key is not a field.
RequiredFields == {"ticker", "position_type", "quantity"}
OptionalFields == {"strike", "expiration"}
WellFormed(data) ==
    /\ RequiredFields \subseteq DOMAIN data
    /\ DOMAIN data \subseteq RequiredFields \cup OptionalFields
FromDict(data) ==
    LET Given(field) == field \in DOMAIN data /\ data[field] # <<>>
        base == [ticker |-> data.ticker, position_type |-> data.position_type,
                 quantity |-> data.quantity]
    IN  IF Given("strike") /\ Given("expiration")
        THEN [ticker |-> data.ticker, position_type |-> data.position_type,
              quantity |-> data.quantity, strike |-> data.strike[1],
              expiration |-> data.expiration[1]]
        ELSE base

\* Portfolio.save and Portfolio.load
Save(ps) == [exists |-> TRUE, positions |-> [i \in DOMAIN ps |-> ToDict(ps[i])]]
Load(file) ==
    IF file.exists
    THEN [i \in DOMAIN file.positions |-> FromDict(file.positions[i])]
    ELSE <<>>

\* add_position: append and save.
AddPosition(pos) ==
    /\ positions' = Append(positions, pos)
    /\ portfolio_file' = Save(positions')
    /\ UNCHANGED <<calls, puts, current_price, days_to_exp, r, pc, result,
                   num_points, created, answer, priced, repeatvars,
                   scanvars, portfolio_greeks, cachevars, mutation>>

ContractsPerShare == 100

\* The rows of options at a strike: options[options['strike'] == strike].
Matching(options, strike) ==
    SelectSeq(options, LAMBDA row : row.strike = RI(strike))

\* What one position adds to the totals; results is what analyze_ticker
\* returns for the ticker with options.
Contribution(pos, results) ==
    IF pos.position_type = "stock"
    THEN [delta |-> RI(pos.quantity), gamma |-> Zero, theta |-> Zero, vega |-> Zero]
    ELSE LET options == IF pos.position_type = "call" THEN results.calls
                        ELSE results.puts
             multiplier == RI(pos.quantity * ContractsPerShare)
         IN  IF Listed(pos.ticker) = 0 \/ Matching(options, pos.strike) = <<>>
             THEN [delta |-> Zero, gamma |-> Zero, theta |-> Zero, vega |-> Zero]
             ELSE LET g == Matching(options, pos.strike)[1].greeks
                  IN  [delta |-> RMul(g.delta, multiplier),
                       gamma |-> RMul(g.gamma, multiplier),
                       theta |-> RMul(g.theta, multiplier),
                       vega |-> RMul(g.vega, multiplier)]

Totals(parts, k) ==
    [delta |-> SumTo([i \in DOMAIN parts |-> parts[i].delta], k),
     gamma |-> SumTo([i \in DOMAIN parts |-> parts[i].gamma], k),
     theta |-> SumTo([i \in DOMAIN parts |-> parts[i].theta], k),
     vega |-> SumTo([i \in DOMAIN parts |-> parts[i].vega], k)]

\* The analyze_ticker calls of get_portfolio_greeks: one for every option
\* held, each on the nearest expiration of the position's ticker.  The calls
\* for the ticker with options all return the same; a call for the ticker
\* without options raises before anything is extracted.
Analyses(n, d2) ==
    IF \E i \in DOMAIN positions :
          positions[i].position_type # "stock" /\ Listed(positions[i].ticker) > 0
    THEN /\ Extraction(Listed("AAA"), n, d2)
         /\ analysis' = AnalyzeTicker(Listed("AAA"), result', calls, puts,
                                      current_price, Expirations[1], r)
    ELSE UNCHANGED <<num_points, result, pc, created, analysis>>

PortfolioGreeks(results) ==
    Totals([i \in DOMAIN positions |-> Contribution(positions[i], results)],
           Len(positions))

\* get_portfolio_greeks
GetPortfolioGreeks(n, d2) ==
    /\ positions # <<>>
    /\ portfolio_greeks = None
    /\ Analyses(n, d2)
    /\ portfolio_greeks' = PortfolioGreeks(analysis')
    /\ UNCHANGED <<calls, puts, current_price, days_to_exp, r, answer, priced,
                   repeatvars, scanned, scan_history, iv_history, positions,
                   cachevars, filevars>>

MaxPositions == 2

InitPortfolio ==
    InitChain(({"call"} \X Ladder) \cup {<<"put", 15>>}, 12, Plain)

NextPortfolio ==
    \/ \E pos \in PositionKinds :
          Len(positions) < MaxPositions /\ portfolio_greeks = None /\ AddPosition(pos)
    \/ GetPortfolioGreeks(MaxPoints, [i \in 1..MaxPoints |-> 1])

SpecPortfolio == InitPortfolio /\ [][NextPortfolio]_vars


(***************************************************************************)
(* CentralPortfolio: SpecCache.  Time passes, stock is bought, and the     *)
(* portfolio is analyzed with and without force_refresh.  Of the analytics *)
(* only the time of their computation, the number of positions and the     *)
(* Greeks are kept.                                                        *)
(***************************************************************************)
CacheTtl == 300
SecondsPerDay == 86400

\* timedelta.seconds of a non-negative difference: the seconds within the
\* last day, the whole days being held in timedelta.days.
TimedeltaSeconds(elapsed) == elapsed % SecondsPerDay

\* The age read from the whole difference, timedelta.total_seconds().
CacheAge_TotalSeconds(elapsed) == elapsed

CacheAge(elapsed) == TimedeltaSeconds(elapsed)

\* _is_cache_valid
IsCacheValid ==
    IF cache_timestamp = None THEN FALSE
    ELSE CacheAge(now - cache_timestamp.at) < CacheTtl

\* The analytics computed from the positions held now, given what
\* get_portfolio_greeks returns.
ComputeAnalytics(greeks) ==
    [computed_at |-> now, total_positions |-> Len(positions), greeks |-> greeks]

\* _empty_analytics
EmptyAnalytics ==
    [computed_at |-> now, total_positions |-> 0,
     greeks |-> [delta |-> Zero, gamma |-> Zero, theta |-> Zero, vega |-> Zero]]

Elapsed == IF cache_timestamp = None THEN -1 ELSE now - cache_timestamp.at

\* analyze_portfolio(force_refresh)
AnalyzePortfolio(force_refresh) ==
    /\ IF ~force_refresh /\ IsCacheValid /\ analytics_cache # None
       THEN /\ analyzed' = [force_refresh |-> force_refresh, from_cache |-> TRUE,
                            elapsed |-> Elapsed, value |-> analytics_cache]
            /\ UNCHANGED <<analytics_cache, cache_timestamp, num_points, result,
                           pc, created, analysis>>
       ELSE IF positions = <<>>
       THEN /\ analyzed' = [force_refresh |-> force_refresh, from_cache |-> FALSE,
                            elapsed |-> Elapsed, value |-> EmptyAnalytics]
            /\ UNCHANGED <<analytics_cache, cache_timestamp, num_points, result,
                           pc, created, analysis>>
       ELSE /\ Analyses(MaxPoints, [i \in 1..MaxPoints |-> 1])
            /\ analytics_cache' = ComputeAnalytics(PortfolioGreeks(analysis'))
            /\ analyzed' = [force_refresh |-> force_refresh, from_cache |-> FALSE,
                            elapsed |-> Elapsed, value |-> analytics_cache']
            /\ cache_timestamp' = [at |-> now]
    /\ UNCHANGED <<calls, puts, current_price, days_to_exp, r, answer, priced,
                   repeatvars, scanned, scan_history, iv_history, foliovars, now,
                   filevars>>

\* The mutation calls made so far, and the record of one more.
MaxMutations == 3
MutationsSoFar == IF mutation = None THEN 0 ELSE mutation.seq
Mutated(op, raised) == [op |-> op, seq |-> MutationsSoFar + 1, raised |-> raised]

\* _invalidate_cache
InvalidateCache ==
    /\ analytics_cache' = None
    /\ cache_timestamp' = None

\* What a CentralPortfolio mutation leaves alone.
MutationFrame ==
    UNCHANGED <<calls, puts, current_price, days_to_exp, r, pc, result,
                num_points, created, answer, priced, repeatvars,
                scanvars, portfolio_greeks, now, analyzed>>

\* The Portfolio call of a mutation that changes the list to ps and saves
\* it, then the reload from the file and the invalidation.
SaveReloadInvalidate(op, ps) ==
    /\ MutationsSoFar < MaxMutations
    /\ portfolio_file' = Save(ps)
    /\ positions' = Load(portfolio_file')
    /\ InvalidateCache
    /\ mutation' = Mutated(op, FALSE)
    /\ MutationFrame

\* CentralPortfolio.add_stock: the position is added, saved and reloaded and
\* the cache dropped.
AddStock(quantity) ==
    /\ Len(positions) < MaxPositions
    /\ SaveReloadInvalidate("add_stock",
            Append(positions, [ticker |-> "AAA", position_type |-> "stock",
                               quantity |-> quantity]))

\* Time passes: some seconds, within the first minutes of a day, or a day.
MaxDays == 1
Advances == {100, 200, SecondsPerDay}
Tick(dt) ==
    /\ IF dt < SecondsPerDay THEN (now % SecondsPerDay) + dt <= 2 * CacheTtl
       ELSE now + dt <= MaxDays * SecondsPerDay + 2 * CacheTtl
    /\ now' = now + dt
    /\ UNCHANGED <<calls, puts, current_price, days_to_exp, r, pc, result,
                   num_points, created, answer, priced, repeatvars,
                   scanvars, foliovars, analytics_cache, cache_timestamp, analyzed,
                   filevars>>

InitCache == InitChain({}, 12, Plain)

NextCache ==
    \/ \E force_refresh \in BOOLEAN : AnalyzePortfolio(force_refresh)
    \/ \E quantity \in Quantities : AddStock(quantity)
    \/ \E dt \in Advances : Tick(dt)

SpecCache == InitCache /\ [][NextCache]_vars

(***************************************************************************)
(* CentralPortfolio: SpecMutate.  Every mutation of the central portfolio, *)
(* at most MaxMutations of them, with analyses in between and the clock    *)
(* within the cache's lifetime.                                            *)
(***************************************************************************)
\* CentralPortfolio.add_option
AddOption(option_type, quantity, strike, expiration) ==
    /\ Len(positions) < MaxPositions
    /\ SaveReloadInvalidate("add_option",
            Append(positions, [ticker |-> "AAA", position_type |-> option_type,
                               quantity |-> quantity, strike |-> strike,
                               expiration |-> expiration]))

\* list.pop(index) for 0 <= index < len
Pop(ps, index) ==
    [i \in 1..(Len(ps) - 1) |-> IF i <= index THEN ps[i] ELSE ps[i + 1]]

\* CentralPortfolio.remove_position: Portfolio.remove_position changes and
\* saves the list only for an index inside it; the reload and the
\* invalidation follow either way.
RemovePosition(index) ==
    /\ MutationsSoFar < MaxMutations
    /\ portfolio_file' = IF 0 <= index /\ index < Len(positions)
                         THEN Save(Pop(positions, index))
                         ELSE portfolio_file
    /\ positions' = Load(portfolio_file')
    /\ InvalidateCache
    /\ mutation' = Mutated("remove_position", FALSE)
    /\ MutationFrame

\* CentralPortfolio.clear
Clear == SaveReloadInvalidate("clear", <<>>)

\* The documents import_from_json is given: exports of portfolios, a
\* document without the 'positions' key, and one whose second position
\* lacks its fields.
StockHeld == [ticker |-> "AAA", position_type |-> "stock", quantity |-> 2]
CallHeld ==
    [ticker |-> "AAA", position_type |-> "call", quantity |-> 2,
     strike |-> 15, expiration |-> 1]
ImportDocuments ==
    {[has_positions |-> TRUE, positions |-> <<>>],
     [has_positions |-> TRUE, positions |-> <<ToDict(StockHeld)>>],
     [has_positions |-> TRUE, positions |-> <<ToDict(CallHeld), ToDict(StockHeld)>>],
     [has_positions |-> FALSE, positions |-> <<>>],
     [has_positions |-> TRUE,
      positions |-> <<ToDict(StockHeld), [ticker |-> "AAA"]>>]}

\* The number of leading entries that Position.from_dict accepts.
RECURSIVE Accepted(_)
Accepted(entries) ==
    IF entries = <<>> \/ ~WellFormed(Head(entries)) THEN 0
    ELSE 1 + Accepted(Tail(entries))

\* CentralPortfolio.import_from_json: the portfolio is cleared (and saved),
\* then data['positions'] is read and each entry converted, added and
\* saved; the cache is invalidated after the loop.  A KeyError for the
\* missing key or a TypeError from from_dict ends the call where it is
\* raised.
ImportFromJson(data) ==
    /\ MutationsSoFar < MaxMutations
    /\ Len(data.positions) <= MaxPositions
    /\ LET k == Accepted(data.positions)
           raised == ~data.has_positions \/ k < Len(data.positions)
       IN  /\ positions' = [i \in 1..k |-> FromDict(data.positions[i])]
           /\ portfolio_file' = Save(positions')
           /\ IF raised THEN UNCHANGED <<analytics_cache, cache_timestamp>>
              ELSE InvalidateCache
           /\ mutation' = Mutated("import_from_json", raised)
    /\ MutationFrame

InitMutate == InitChain({}, 12, Plain)

NextMutate ==
    \/ \E force_refresh \in BOOLEAN : AnalyzePortfolio(force_refresh)
    \/ \E quantity \in Quantities : AddStock(quantity)
    \/ AddOption("call", 2, 15, 1)
    \/ \E index \in -1..MaxPositions : RemovePosition(index)
    \/ Clear
    \/ \E data \in ImportDocuments : ImportFromJson(data)
    \/ Tick(200)

SpecMutate == InitMutate /\ [][NextMutate]_vars





(***************************************************************************)
(* Claims about extract_density, checked under Spec                        *)
(***************************************************************************)
\* The combined table of the chain in the current state.
combined_now == Combined(calls, puts, current_price, days_to_exp, r)
Called == pc # "ready"

C2_OnlyHardFailure ==
    (Called /\ Len(combined_now) >= 5) => (pc = "returned" /\ result.status = "ok")

\* C5: the returned strikes are num_points uniformly spaced, strictly
\* ascending points from max(min_strike - 0.1 range, 0.5 spot) to
\* max_strike + 0.1 range, and the first is never below 0.5 spot.
C5_GridAscendingUniform ==
    pc = "returned" =>
        LET s == result.dist.strikes
            lo == MinStrike(combined_now)
            hi == MaxStrike(combined_now)
            half == Q(current_price, 2)
            below == Q(10 * lo - (hi - lo), 10)
        IN  /\ Len(s) = num_points
            /\ \A i \in 1..(Len(s) - 1) :
                  /\ RLt(s[i], s[i + 1])
                  /\ RSub(s[i + 1], s[i]) = RSub(s[2], s[1])
            /\ s[1] = (IF RLt(below, half) THEN half ELSE below)
            /\ s[Len(s)] = Q(10 * hi + (hi - lo), 10)
            /\ RGe(s[1], half)


(***************************************************************************)
(* Claims about the returned distribution and its queries, checked under   *)
(* SpecDist                                                                *)
(***************************************************************************)
Returned == pc = "returned"
Integral(dist) == Trapz(dist.density, dist.strikes)

\* C3: the stored cdf of every returned distribution is non-decreasing along
\* the grid, its final value is exactly 1 and no entry is NaN, also when the
\* clipped density is zero at every grid point.
C3_CdfMonotoneEndsAtOne ==
    Returned =>
        LET cdf == result.dist.cdf
        IN  /\ \A i \in DOMAIN cdf : ~IsNaN(cdf[i])
            /\ \A i \in 1..(Len(cdf) - 1) : RLe(cdf[i], cdf[i + 1])
            /\ cdf[Len(cdf)] = One

Width(strikes, i) ==
    IF i < Len(strikes) THEN RSub(strikes[i + 1], strikes[i])
    ELSE RSub(strikes[Len(strikes)], strikes[Len(strikes) - 1])

RECURSIVE MassOver(_, _)
MassOver(dist, I) ==
    IF I = {} THEN Zero
    ELSE LET i == CHOOSE m \in I : \A k \in I : k <= m
         IN  RAdd(MassOver(dist, I \ {i}),
                  RMul(dist.density[i], Width(dist.strikes, i)))

InRange(dist, low, high) ==
    {i \in DOMAIN dist.strikes :
        RLe(low, dist.strikes[i]) /\ RLe(dist.strikes[i], high)}

\* C6: probability_between(low, high) is the sum of density[i] * width[i]
\* over exactly the grid indices with low <= strikes[i] <= high, and 0 when
\* there is none (low > high included).
C6_BetweenIsMaskedSum ==
    (Returned /\ answer.op = "probability_between") =>
        LET I == InRange(result.dist, answer.args[1], answer.args[2])
        IN  /\ answer.value = MassOver(result.dist, I)
            /\ I = {} => answer.value = Zero

C6_Witness ==
    /\ Returned /\ answer.op = "probability_between"
    /\ RLt(answer.args[1], answer.args[2])
    /\ Cardinality(InRange(result.dist, answer.args[1], answer.args[2])) = 2
    /\ Cardinality(InRange(result.dist, answer.args[1], answer.args[2]))
          < Len(result.dist.strikes)
    /\ RGt(answer.value, Zero)

\* C7: for every x inside the grid, probability_above(x) plus
\* probability_below(x) is 1, plus the mass of the grid point at x when x is
\* one.
C7_AbovePlusBelowIsOne ==
    Returned =>
        \A x \in QueryPoints(result.dist) :
            LET s == result.dist.strikes
                at == {i \in DOMAIN s : s[i] = x}
            IN  (RLe(s[1], x) /\ RLe(x, s[Len(s)])) =>
                    RAdd(ProbabilityAbove(result.dist, x),
                         ProbabilityBelow(result.dist, x))
                        = RAdd(One, MassOver(result.dist, at))

\* The cumulative the claim speaks of: the running sum of density times
\* gradient(strikes), divided by its last value.
RawCumulative(dist) == Cumsum(Times(dist.density, Gradient(dist.strikes)))
Cumulative(dist) ==
    [i \in DOMAIN dist.strikes |->
        RDiv(RawCumulative(dist)[i], RawCumulative(dist)[Len(dist.strikes)])]

\* 0-based first index at which the cumulative reaches level, clamped into
\* 0..n-1 (n-1 when it never does).
FirstReach(dist, level) ==
    LET hits == {i \in DOMAIN dist.strikes : RGe(Cumulative(dist)[i], level)}
    IN  IF hits = {} THEN Len(dist.strikes) - 1
        ELSE (CHOOSE i \in hits : \A k \in hits : i <= k) - 1

TotalMass(dist) == RawCumulative(dist)[Len(dist.strikes)]
PositiveMass(dist) == RGt(TotalMass(dist), Zero)

C9_QueriesLeaveDistribution ==
    [][Returned =>
          /\ result' = result
          /\ result' = created'
          /\ (answer.op = answer'.op /\ answer.op # "none"
                 /\ answer.args = answer'.args)
                => answer'.value = answer.value]_vars

C9_Witness ==
    /\ Returned
    /\ answer.op = "expected_move"
    /\ result = created
    /\ PositiveMass(result.dist)


(***************************************************************************)
(* Claims about Black-Scholes pricing, checked under SpecBS                *)
(***************************************************************************)
\* C10: at or after expiry (T <= 0) call_price returns max(0, S - K) and
\* put_price returns max(0, K - S), whatever the rate and the volatility
\* (zero and negative volatility included); a value is always returned.
C10_IntrinsicAtExpiry ==
    (priced.op \in {"call_price", "put_price"} /\ RLe(priced.T, Zero)) =>
        LET diff == IF priced.op = "call_price" THEN RSub(priced.S, priced.K)
                    ELSE RSub(priced.K, priced.S)
        IN  /\ RGe(priced.value, Zero)
            /\ RGe(priced.value, diff)
            /\ priced.value \in {Zero, diff}

C10_Witness ==
    /\ priced.op = "call_price"
    /\ priced.T = Zero
    /\ RLe(priced.sigma, Zero)
    /\ RGt(priced.value, Zero)


\* C11: greeks returns delta = gamma = theta = vega = rho = 0 for calls and
\* puts whenever T <= 0 or sigma <= 0, and _add_greeks gives all-zero Greeks
\* to every chain row whose implied volatility is <= 0, and to every row
\* when T <= 0.
C11_DegenerateGreeksAreZero ==
    /\ (priced.op = "greeks"
            /\ (RLe(priced.T, Zero) \/ RLe(priced.sigma, Zero)))
          => \A g \in {"delta", "gamma", "theta", "vega", "rho"} :
                priced.value[g] = Zero
    /\ priced.op = "_add_greeks"
          => /\ Len(priced.value) = Len(priced.options)
             /\ \A i \in DOMAIN priced.options :
                   (RLe(priced.options[i].impliedVolatility, Zero)
                        \/ RLe(priced.T, Zero))
                     => \A g \in {"delta", "gamma", "theta", "vega", "rho"} :
                           priced.value[i].greeks[g] = Zero

C11_Witness ==
    /\ priced.op = "_add_greeks"
    /\ RGt(priced.T, Zero)
    /\ Len(priced.options) = 2
    /\ RLe(priced.options[1].impliedVolatility, Zero)
    /\ RGt(priced.options[2].impliedVolatility, Zero)
    /\ priced.value[1].greeks = ZeroGreeks
    /\ priced.value[2].greeks.delta # Zero


\* The arguments of the inversion the state records, and whether the
\* objective has the same strict sign at both ends of [0.01, 5.0].
inverted ==
    [price |-> priced.price, S |-> priced.S, K |-> priced.K, T |-> priced.T,
     r |-> priced.r, option_type |-> priced.option_type]
NoSignChange ==
    LET fa == Objective(inverted, VolLow)
        fb == Objective(inverted, VolHigh)
    IN  (RLt(fa, Zero) /\ RLt(fb, Zero)) \/ (RGt(fa, Zero) /\ RGt(fb, Zero))
InBracket(v) == RLe(Q(1, 100), v) /\ RLe(v, RI(5))

\* C12 as stated: implied_volatility returns NaN when price(sigma) minus the
\* market price has no sign change between sigma = 0.01 and 5.0, and a
\* volatility inside [0.01, 5.0] otherwise.
C12_NaNOrInBracket ==
    priced.op = "implied_volatility" =>
        IF NoSignChange THEN IsNaN(priced.value) ELSE InBracket(priced.value)

\* C12: for T > 0 implied_volatility returns NaN when the objective has no
\* sign change over [0.01, 5.0] and a volatility inside [0.01, 5.0]
\* otherwise; for T <= 0 it returns 0 without searching.
C12_NaNOrInBracketBeforeExpiry ==
    priced.op = "implied_volatility" =>
        IF RLe(priced.T, Zero) THEN priced.value = Zero
        ELSE IF NoSignChange THEN IsNaN(priced.value)
        ELSE InBracket(priced.value)

C12_Witness ==
    /\ priced.op = "implied_volatility"
    /\ RGt(priced.T, Zero)
    /\ NoSignChange
    /\ IsNaN(priced.value)


\* The tolerance of the fixed-point arithmetic: each of the four products
\* of a price is rounded to 1/FP.
Tolerance == Q(4, FP)
Within(a, b, tol) == RLe(RSub(a, b), tol) /\ RLe(RSub(b, a), tol)

\* C13: for S > 0, K > 0, T > 0 and sigma > 0, call_price minus put_price on
\* the same arguments is S - K * exp(-r * T), within the tolerance.
C13_PutCallParity ==
    (priced.op = "call_price" /\ RGt(priced.T, Zero) /\ RGt(priced.sigma, Zero))
        => Within(RSub(priced.value,
                       PutPrice(priced.S, priced.K, priced.T, priced.r,
                                priced.sigma)),
                  RSub(priced.S,
                       RMul(priced.K, Exp(RNeg(RMul(priced.r, priced.T))))),
                  Tolerance)

C13_Witness ==
    /\ priced.op = "call_price" /\ RGt(priced.T, Zero) /\ RGt(priced.sigma, Zero)
    /\ priced.r = DefaultRate
    /\ RGt(priced.value, Q(1, 10))
    /\ RGt(PutPrice(priced.S, priced.K, priced.T, priced.r, priced.sigma),
           Q(1, 10))


\* The round-trip tolerance.  The claim's 1e-4 is many orders above the
\* resolution of a double; the model's prices have a resolution of 1/FP, at
\* which a volatility is recovered to about 50/FP where the price responds
\* to it, so the tolerance is taken as 100/FP.
RoundTripTolerance == Q(100, FP)

\* C14: for T > 0 and sigma strictly inside (0.01, 5.0), implied_volatility
\* of the price generated at sigma, for the same side, is within the
\* round-trip tolerance of sigma.
C14_RoundTripRecoversSigma ==
    (priced.op = "round_trip" /\ RGt(priced.T, Zero))
        => Within(priced.value, priced.sigma, RoundTripTolerance)

ExtractionRaises == pc = "raised"

DistributionStatistics ==
    {"expected_price", "expected_move", "expected_move_pct", "skewness",
     "kurtosis", "atm_iv", "prob_above_current", "prob_below_current",
     "range_1sigma", "range_2sigma"}

\* C16: when extract_density raises for the ticker, analyze_ticker returns a
\* result without a distribution, with the Greeks on every quote of both
\* sides and with a summary that holds none of the distribution statistics,
\* and scan_ticker returns a ScanResult with expected_move_pct = 0,
\* skewness = 0 and prob_up = prob_down = 0.5.
C16_ProceedsWithoutDistribution ==
    (analysis # None /\ analysis.status = "ok" /\ ExtractionRaises) =>
        /\ analysis.implied_distribution = None
        /\ Len(analysis.calls) = Len(calls.rows)
        /\ Len(analysis.puts) = Len(puts.rows)
        /\ \A row \in Range(analysis.calls) \cup Range(analysis.puts) :
              DOMAIN row.greeks = DOMAIN ZeroGreeks
        /\ DOMAIN analysis.summary \cap DistributionStatistics = {}
        /\ scanned # None
        /\ scanned.expected_move_pct = Zero
        /\ scanned.skewness = Zero
        /\ scanned.prob_up = Q(1, 2)
        /\ scanned.prob_down = Q(1, 2)

\* A scan of a ticker whose chain has quotes on both sides and too few of
\* them for an extraction.
C16_Witness ==
    /\ analysis # None
    /\ analysis.status = "ok"
    /\ ExtractionRaises
    /\ scanned # None
    /\ Len(calls.rows) > 0
    /\ Len(puts.rows) > 0

(***************************************************************************)
(* Claims about the portfolio, checked under SpecPortfolio                 *)
(***************************************************************************)
\* The Greeks of the contract a position holds: its side, strike and
\* expiration; zero when the ticker has no options or no such contract.
OwnContract(pos) ==
    LET side == IF pos.position_type = "call" THEN calls ELSE puts
        T == YearFraction(Expirations[pos.expiration])
        rows == IF Listed(pos.ticker) = 0 THEN <<>>
                ELSE Matching(FloatRows(side), pos.strike)
    IN  IF rows = <<>> THEN ZeroGreeks
        ELSE Greeks(RI(current_price), rows[1].strike, T, r,
                    rows[1].impliedVolatility, pos.position_type)

OwnPart(pos) ==
    IF pos.position_type = "stock"
    THEN [delta |-> RI(pos.quantity), gamma |-> Zero, theta |-> Zero, vega |-> Zero]
    ELSE LET g == OwnContract(pos)
             multiplier == RI(pos.quantity * ContractsPerShare)
         IN  [delta |-> RMul(g.delta, multiplier),
              gamma |-> RMul(g.gamma, multiplier),
              theta |-> RMul(g.theta, multiplier),
              vega |-> RMul(g.vega, multiplier)]

\* C17: the portfolio Greeks are, for delta, gamma, theta and vega, the sum
\* over the held option positions of the Greeks of the position's own
\* contract (its side, strike and expiration) times quantity times 100, plus
\* one delta per held stock share; a position whose lookup fails or finds no
\* contract adds zero.
C17_SumOfOwnContractGreeks ==
    portfolio_greeks # None =>
        portfolio_greeks =
            Totals([i \in DOMAIN positions |-> OwnPart(positions[i])],
                   Len(positions))

\* The same sum when every held option expires at the nearest listed
\* expiration.
NearestExpirationSum ==
    (/\ portfolio_greeks # None
     /\ \A i \in DOMAIN positions :
           positions[i].position_type = "stock" \/ positions[i].expiration = 1) =>
        portfolio_greeks =
            Totals([i \in DOMAIN positions |-> OwnPart(positions[i])],
                   Len(positions))

(***************************************************************************)
(* Claims about the analytics cache, checked under SpecCache               *)
(***************************************************************************)
\* C18: analyze_portfolio returns the cached analytics only without
\* force_refresh and when they were computed less than 300 seconds earlier;
\* after 300 seconds or more, a day or more included, and with force_refresh
\* it recomputes.
C18_CacheOnlyWithinTtl ==
    (analyzed # None /\ analyzed.from_cache) =>
        /\ ~analyzed.force_refresh
        /\ analyzed.elapsed >= 0
        /\ analyzed.elapsed < CacheTtl

(***************************************************************************)
(* Claims about cleaning and the mid price, checked under Spec             *)
(***************************************************************************)
\* What identifies a quote: the columns that cleaning reads and leaves as
\* they are.
Quoted(rows) ==
    [i \in DOMAIN rows |->
        [strike |-> rows[i].strike, lastPrice |-> rows[i].lastPrice,
         impliedVolatility |-> rows[i].impliedVolatility]]

WorthKeeping(row, lower_ok, upper_ok) ==
    /\ RGt(row.lastPrice, Zero)
    /\ RGt(row.impliedVolatility, Zero)
    /\ RLt(row.impliedVolatility, RI(5))
    /\ lower_ok
    /\ upper_ok

\* The quotes to keep when a strike on a bound of the range is in the range.
KeptInclusive(options) ==
    SortByStrike(SelectSeq(Quoted(options.rows), LAMBDA row :
        WorthKeeping(row,
                     RGe(RI(row.strike), RMul(Q(3, 10), RI(current_price))),
                     RLe(RI(row.strike), RMul(RI(2), RI(current_price))))))

\* The quotes to keep when a strike on a bound of the range is outside it.
KeptExclusive(options) ==
    SortByStrike(SelectSeq(Quoted(options.rows), LAMBDA row :
        WorthKeeping(row,
                     RGt(RI(row.strike), RMul(Q(3, 10), RI(current_price))),
                     RLt(RI(row.strike), RMul(RI(2), RI(current_price))))))

\* C19: cleaning keeps, on each side, exactly the quotes with lastPrice > 0,
\* 0 < impliedVolatility < 5 and 0.3 * spot <= strike <= 2.0 * spot, both
\* bounds included, and returns them by ascending strike.
C19_KeepsQuotesInClosedRange ==
    /\ Quoted(CleanOptions(calls, current_price, "call")) = KeptInclusive(calls)
    /\ Quoted(CleanOptions(puts, current_price, "put")) = KeptInclusive(puts)

\* The same with both bounds excluded.
KeepsQuotesInOpenRange ==
    /\ Quoted(CleanOptions(calls, current_price, "call")) = KeptExclusive(calls)
    /\ Quoted(CleanOptions(puts, current_price, "put")) = KeptExclusive(puts)

\* The bid and the ask of a quote of the input, synthesized from the last
\* price when the side has no such column.
BidOf(options, row) ==
    IF options.has_bid THEN row.bid ELSE RMul(row.lastPrice, Q(95, 100))
AskOf(options, row) ==
    IF options.has_ask THEN row.ask ELSE RMul(row.lastPrice, Q(105, 100))

\* The mid price stated for a quote of the input.
StatedMid(options, row) ==
    LET bid == BidOf(options, row)
        ask == AskOf(options, row)
    IN  IF ~IsNaN(bid) /\ ~IsNaN(ask) THEN RDiv(RAdd(bid, ask), RI(2))
        ELSE row.lastPrice

MidAsStated(options, clean) ==
    \A i \in DOMAIN clean :
        /\ ~IsNaN(clean[i].mid)
        /\ \E j \in DOMAIN options.rows :
              LET row == options.rows[j]
              IN  /\ row.strike = clean[i].strike
                  /\ row.lastPrice = clean[i].lastPrice
                  /\ clean[i].bid = BidOf(options, row)
                  /\ clean[i].ask = AskOf(options, row)
                  /\ clean[i].mid = StatedMid(options, row)

\* C20: the mid price of a cleaned quote is (bid + ask) / 2 when bid and ask
\* are there and the last price when they are not, a bid or ask column
\* missing from the input being first made up as lastPrice * 0.95 or
\* lastPrice * 1.05; so every cleaned quote has a mid price.
C20_MidPriceDefined ==
    /\ MidAsStated(calls, CallsClean(calls, current_price))
    /\ MidAsStated(puts, PutsClean(puts, current_price))

\* An extraction from a chain with a cleaned call that has no bid or ask
\* and takes the last price as its mid.
C20_Witness ==
    /\ Called
    /\ \E i \in DOMAIN CallsClean(calls, current_price) :
          LET row == CallsClean(calls, current_price)[i]
          IN  IsNaN(row.bid) /\ row.mid = row.lastPrice

\* An extraction from a chain without bid and ask columns.
SynthesizedQuotesCleaned ==
    /\ Called
    /\ ~calls.has_bid
    /\ \E i \in DOMAIN CallsClean(calls, current_price) :
          LET row == CallsClean(calls, current_price)[i]
          IN  row.mid = row.lastPrice /\ row.bid = RMul(row.lastPrice, Q(95, 100))

(***************************************************************************)
(* Claims about the parity combination and the spline points, checked      *)
(* under Spec                                                              *)
(***************************************************************************)
\* C = P + S - K e^(-rT) for a cleaned put quote p.
SyntheticCall(p, S, discount) ==
    RSub(RAdd(p.mid, RI(S)), RMul(RI(p.strike), discount))

\* The prices stated for the strike K, one for every call quote and put
\* quote, or pair of them, at K, among the cleaned quotes cc and pp.
StatedPrices(K, cc, pp, S, discount) ==
    LET cs == {i \in DOMAIN cc : cc[i].strike = K}
        ps == {j \in DOMAIN pp : pp[j].strike = K}
    IN  IF ps = {} THEN {<<i, 0, cc[i].mid>> : i \in cs}
        ELSE IF cs = {} THEN {<<0, j, SyntheticCall(pp[j], S, discount)>> : j \in ps}
        ELSE {<<i, j, RDiv(RAdd(cc[i].mid, SyntheticCall(pp[j], S, discount)),
                           RI(2))>> : i \in cs, j \in ps}

StatedKept(K, cc, pp, S, discount) ==
    {e \in StatedPrices(K, cc, pp, S, discount) : ~IsNaN(e[3]) /\ RGt(e[3], Zero)}

\* C21: the combined table holds, per strike, the synthetic call
\* P_mid + S - K e^(-rT) where only a put is quoted, the call mid where only a
\* call is quoted and the mean of the two where both are, and it holds a
\* strike exactly when that price is defined and > 0.
C21_CombinedPrices ==
    LET cc == CallsClean(calls, current_price)
        pp == PutsClean(puts, current_price)
        discount == Discount(r, YearFraction(days_to_exp))
        cb == CombineWithParity(cc, pp, current_price, discount)
        quoted == {cc[i].strike : i \in DOMAIN cc} \cup {pp[j].strike : j \in DOMAIN pp}
    IN  /\ \A i \in DOMAIN cb : cb[i].strike \in quoted
        /\ \A K \in quoted :
              LET rows == {i \in DOMAIN cb : cb[i].strike = K}
                  kept == StatedKept(K, cc, pp, current_price, discount)
              IN  /\ {cb[i].call_price : i \in rows} = {e[3] : e \in kept}
                  /\ Cardinality(rows) = Cardinality(kept)

\* An extraction from a chain with a strike quoted on both sides and kept
\* and a strike quoted as a put only and dropped for its price.
C21_Witness ==
    LET pp == PutsClean(puts, current_price)
        cb == Combined(calls, puts, current_price, days_to_exp, r)
    IN  /\ Called
        /\ \E i \in DOMAIN cb : ~IsNaN(cb[i].call_mid) /\ ~IsNaN(cb[i].put_mid)
        /\ \E j \in DOMAIN pp : \A i \in DOMAIN cb : cb[i].strike # pp[j].strike

\* np.argsort(strikes) with the default kind, quicksort, which is not
\* stable: rows of equal strike come out in any order, so the row that
\* np.unique(return_index=True) keeps for a strike, the first of the sorted
\* array, is any row of that strike.  A choice maps each strike to that row.
UniqueIndexChoices(combined) ==
    LET ks == {combined[i].strike : i \in DOMAIN combined}
    IN  {f \in [ks -> DOMAIN combined] : \A K \in ks : combined[f[K]].strike = K}

\* strikes[unique_idx] and prices[unique_idx] for one such choice.
SplinePointsOf(combined, f) ==
    LET ks == SetToSortedSeq(DOMAIN f)
    IN  [j \in DOMAIN ks |->
            [strike |-> ks[j], price |-> combined[f[ks[j]]].call_price]]

FirstOccurrence(combined, K) ==
    CHOOSE i \in DOMAIN combined :
        /\ combined[i].strike = K
        /\ \A j \in 1..(i - 1) : combined[j].strike # K

\* The extraction got as far as the spline: it was called and the combined
\* table had its five rows.
SplineReached(combined) == pc # "ready" /\ Len(combined) >= MinCombined

StrictlyIncreasing(points) ==
    \A j \in 1..(Len(points) - 1) : points[j].strike < points[j + 1].strike

SplinePointsIncreasing ==
    LET cb == Combined(calls, puts, current_price, days_to_exp, r)
    IN  SplineReached(cb) =>
          /\ \A f \in UniqueIndexChoices(cb) :
                LET points == SplinePointsOf(cb, f)
                IN  /\ StrictlyIncreasing(points)
                    /\ {points[j].strike : j \in DOMAIN points}
                          = {cb[i].strike : i \in DOMAIN cb}
                    /\ \A j \in DOMAIN points : \E i \in DOMAIN cb :
                          /\ cb[i].strike = points[j].strike
                          /\ cb[i].call_price = points[j].price
          /\ \E f \in UniqueIndexChoices(cb) :
                /\ SplinePointsOf(cb, f) = SplinePoints(cb)
                /\ \A K \in DOMAIN f : f[K] = FirstOccurrence(cb, K)

(***************************************************************************)
(* The width of the Gaussian filter, over every num_points up to           *)
(* MaxNumPoints                                                            *)
(***************************************************************************)
MaxNumPoints == 200

InitSmooth == InitChain({}, 12, Plain)

\* The sigma_smooth an extraction with num_points = n hands to
\* gaussian_filter1d.
Smooth(n) ==
    /\ answer = NoAnswer
    /\ answer' = [op |-> "sigma_smooth", num_points |-> n,
                  value |-> SigmaSmooth(n)]
    /\ UNCHANGED <<calls, puts, current_price, days_to_exp, r, pc, result,
                   num_points, created, priced, appvars>>

NextSmooth == \E n \in 2..MaxNumPoints : Smooth(n)

SpecSmooth == InitSmooth /\ [][NextSmooth]_vars

\* max(1, round(0.02 * n)), the nearest integer to n / 50.
StatedSigma(n) == IntMax(1, DivRound(2 * n, 100))

\* C23: the filter's standard deviation is max(1, round(0.02 * num_points))
\* for every num_points >= 2.
C23_SigmaIsRounded ==
    answer.op = "sigma_smooth" => answer.value = StatedSigma(answer.num_points)

\* What the code computes: the fraction is cut off, not rounded, so the
\* width is 1 up to num_points = 99 and 4 at 200.
SigmaIsTruncated ==
    answer.op = "sigma_smooth" =>
        /\ answer.value = IntMax(1, answer.num_points \div 50)
        /\ (answer.num_points = 200 => answer.value = 4)
        /\ (answer.num_points = 90 => answer.value = 1)

(***************************************************************************)
(* The spline fit and its fallback, on call chains that quote a strike     *)
(* more than once: MinCombined to MaxQuotes good quotes at ascending       *)
(* strikes of SplineStrikes, repetitions allowed.                          *)
(***************************************************************************)
MaxQuotes == 6
SplineStrikes == {13, 14, 15, 16}

RepeatedStrikes ==
    UNION {{ks \in [1..m -> SplineStrikes] :
                \A i \in 1..(m - 1) : ks[i] <= ks[i + 1]} : m \in MinCombined..MaxQuotes}

InitSpline ==
    \E ks \in RepeatedStrikes :
        /\ calls = [has_bid |-> TRUE, has_ask |-> TRUE,
                    rows |-> [i \in DOMAIN ks |-> Quote("call", ks[i], 12, "good")]]
        /\ puts = [has_bid |-> TRUE, has_ask |-> TRUE, rows |-> <<>>]
        /\ current_price = 12
        /\ days_to_exp \in DaysToExp
        /\ r = DefaultRate
        /\ pc = "ready"
        /\ result = None
        /\ num_points = 0
        /\ created = None
        /\ answer = NoAnswer
        /\ priced = NotPriced
        /\ memo = <<>>
        /\ first = <<>>
        /\ instance = 1
        /\ analysis = None
        /\ scanned = None
        /\ scan_history = <<>>
        /\ iv_history = <<>>
        /\ positions = <<>>
        /\ portfolio_greeks = None
        /\ now = 0
        /\ analytics_cache = None
        /\ cache_timestamp = None
        /\ analyzed = None
        /\ portfolio_file = NoFile
        /\ mutation = None
    /\ portfolio_file = NoFile
    /\ mutation = None

NextSpline == ExtractFlat

SpecSpline == InitSpline /\ [][NextSpline]_vars

\* The smoothing fit fails: UnivariateSpline raises unless it has more
\* points than its degree.
FitFails(points) == Len(points) <= SplineOrder

\* C24: when the smoothing fit fails the extraction goes on with the cubic
\* spline through the same points and returns; no error reaches the caller.
C24_FallbackContinues ==
    LET cb == Combined(calls, puts, current_price, days_to_exp, r)
    IN  SplineReached(cb) /\ FitFails(SplinePoints(cb)) =>
            /\ pc = "returned"
            /\ result.status = "ok"
            /\ result.spline = "CubicSpline"

\* With at least two distinct strikes the fallback succeeds and the
\* extraction returns; with one, the fallback raises and the caller gets
\* its error.
FallbackNeedsTwoPoints ==
    LET cb == Combined(calls, puts, current_price, days_to_exp, r)
        points == SplinePoints(cb)
    IN  SplineReached(cb) /\ FitFails(points) =>
            IF Len(points) >= 2
            THEN result.status = "ok" /\ result.spline = "CubicSpline"
            ELSE pc = "raised" /\ result = Raise(SplineError)

FallbackTaken ==
    pc = "returned" /\ result.spline = "CubicSpline"

(***************************************************************************)
(* The at-the-money volatility, on chains with the spot midway between     *)
(* two strikes                                                             *)
(***************************************************************************)
AtmSpots == {15}
AtmStrikes == {13, 14, 16, 17, 24}
AtmVariants ==
    {Plain, [cols |-> TRUE, kind |-> "zero_price", side |-> "put", dup |-> FALSE]}
AtmPlacements ==
    {P \in SUBSET (Sides \X AtmStrikes) :
        Cardinality(P) >= MinCombined /\ Cardinality(P) <= MinCombined + 1}

InitAtm ==
    \E P \in AtmPlacements, S \in AtmSpots, v \in AtmVariants : InitChain(P, S, v)

NextAtm == ExtractFlat

SpecAtm == InitAtm /\ [][NextAtm]_vars

\* The strike nearest to the spot among the rows, the lowest on a tie, and
\* the implied volatilities quoted at it.
NearestStrike(rows, S) ==
    CHOOSE K \in {rows[i].strike : i \in DOMAIN rows} :
        \A i \in DOMAIN rows :
            \/ Abs(K - S) < Abs(rows[i].strike - S)
            \/ Abs(K - S) = Abs(rows[i].strike - S) /\ K <= rows[i].strike
IvAt(rows, K) ==
    {rows[i].impliedVolatility : i \in DOMAIN rows \cap {j \in DOMAIN rows : rows[j].strike = K}}

\* C25: atm_iv is the average of the implied volatilities of the cleaned
\* call and the cleaned put nearest to the spot, the lowest strike on a tie;
\* with no put left after cleaning it is the nearest call's alone.
C25_AtmIvNearest ==
    LET cc == CallsClean(calls, current_price)
        pp == PutsClean(puts, current_price)
    IN  pc = "returned" =>
            IF pp = <<>>
            THEN {result.dist.atm_iv} = IvAt(cc, NearestStrike(cc, current_price))
            ELSE \E a \in IvAt(cc, NearestStrike(cc, current_price)),
                    b \in IvAt(pp, NearestStrike(pp, current_price)) :
                    result.dist.atm_iv = RDiv(RAdd(a, b), RI(2))

\* An extraction whose cleaned puts are two, as far below the spot as above
\* it, with different volatilities.
C25_Witness ==
    LET pp == PutsClean(puts, current_price)
    IN  /\ pc = "returned"
        /\ \E i, j \in DOMAIN pp :
              /\ pp[i].strike < pp[j].strike
              /\ current_price - pp[i].strike = pp[j].strike - current_price
              /\ \A k \in DOMAIN pp :
                    Abs(pp[k].strike - current_price) >= pp[j].strike - current_price
              /\ pp[i].impliedVolatility # pp[j].impliedVolatility

\* An extraction from a chain whose only put quote was dropped in cleaning.
AtmFromCallsAlone ==
    /\ pc = "returned"
    /\ puts.rows # <<>>
    /\ PutsClean(puts, current_price) = <<>>

(***************************************************************************)
(* Claims about the scanner's changes, checked under SpecScan              *)
(***************************************************************************)
\* The difference of two skewnesses as CalculateChanges writes it.
SkewDifference(current_skew, prev_skew) ==
    IF current_skew = prev_skew THEN Zero
    ELSE [minus |-> prev_skew, from |-> current_skew]

\* C26: the changes of the n-th successful scan of a ticker, n >= 2, are its
\* atm_iv and skewness minus those of the successful scan just before it;
\* they are None only for the first scan.
C26_ChangesAgainstPreviousScan ==
    LET n == Len(scan_history)
    IN  scanned # None =>
            IF n = 1
            THEN scanned.iv_change = None /\ scanned.skew_change = None
            ELSE /\ scanned.iv_change
                      = RSub(scanned.atm_iv, scan_history[n - 1].atm_iv)
                 /\ scanned.skew_change
                      = SkewDifference(scanned.skewness,
                                       scan_history[n - 1].skewness)

\* What the code does: the changes are None for the first two scans, and
\* from the third on they are taken against the scan before the previous
\* one, the history not yet holding the current scan when it is read.
ChangesAgainstScanBeforeLast ==
    LET n == Len(scan_history)
    IN  scanned # None =>
            IF n <= 2
            THEN scanned.iv_change = None /\ scanned.skew_change = None
            ELSE /\ scanned.iv_change
                      = RSub(scanned.atm_iv, scan_history[n - 2].atm_iv)
                 /\ scanned.skew_change
                      = SkewDifference(scanned.skewness,
                                       scan_history[n - 2].skewness)

SecondScanWithoutChanges ==
    scanned # None /\ Len(scan_history) = 2 /\ scanned.iv_change = None
ThirdScanWithChanges ==
    scanned # None /\ Len(scan_history) = 3 /\ scanned.iv_change # None

(***************************************************************************)
(* Claims about the two cumulatives and the confidence ranges, checked     *)
(* under SpecDist                                                          *)
(***************************************************************************)
\* forecast_from_distribution: the grid index of the median, looked up in
\* the stored cdf.
MedianIndex(dist) ==
    IntMin(Searchsorted(dist.cdf, Q(1, 2)), Len(dist.strikes) - 1)

Percentiles ==
    {RDiv(RSub(One, c), RI(2)) : c \in Confidences}
    \cup {RSub(One, RDiv(RSub(One, c), RI(2))) : c \in Confidences}

\* C27: for a distribution returned by extract_density with positive total
\* mass, the normalized cumulative that expected_move recomputes equals the
\* stored cdf at every index, so a percentile is found at the same grid
\* index in both, the forecaster's median included.
C27_CumulativesAgree ==
    pc = "returned" /\ PositiveMass(result.dist) =>
        LET cumsum == MoveCumsum(result.dist)
            cdf == result.dist.cdf
        IN  /\ cumsum = cdf
            /\ \A p \in Percentiles : Searchsorted(cumsum, p) = Searchsorted(cdf, p)
            /\ MoveIndices(result.dist, Zero).lower_idx = MedianIndex(result.dist)

\* A returned distribution of positive mass on three grid points whose
\* density is not flat.
C27_Witness ==
    /\ pc = "returned"
    /\ PositiveMass(result.dist)
    /\ Len(result.dist.strikes) >= 3
    /\ \E i, j \in DOMAIN result.dist.density :
          RLt(Zero, result.dist.density[i])
          /\ RLt(result.dist.density[i], result.dist.density[j])

Ascending(strikes) ==
    \A i \in 1..(Len(strikes) - 1) : RLt(strikes[i], strikes[i + 1])
NonNegative(density) == \A i \in DOMAIN density : RGe(density[i], Zero)

\* C28: the confidence ranges are nested: on ascending strikes with a
\* non-negative density of positive total mass, c1 <= c2 gives
\* l2 <= l1 <= u1 <= u2 for expected_move(c1) = (l1, u1) and
\* expected_move(c2) = (l2, u2).
C28_RangesNested ==
    (/\ pc = "returned"
     /\ Ascending(result.dist.strikes)
     /\ NonNegative(result.dist.density)
     /\ PositiveMass(result.dist)) =>
        \A c1 \in Confidences, c2 \in Confidences :
            RLe(c1, c2) =>
                LET m1 == ExpectedMove(result.dist, c1)
                    m2 == ExpectedMove(result.dist, c2)
                IN  RLe(m2[1], m1[1]) /\ RLe(m1[1], m1[2]) /\ RLe(m1[2], m2[2])

\* A distribution with a range strictly wider, on both sides, than the
\* range of a lower confidence, and whose ranges at two confidences strictly
\* between 0 and 1 differ.
C28_Witness ==
    /\ pc = "returned"
    /\ Ascending(result.dist.strikes)
    /\ NonNegative(result.dist.density)
    /\ PositiveMass(result.dist)
    /\ \E c1 \in Confidences, c2 \in Confidences :
          /\ RLt(c1, c2)
          /\ LET m1 == ExpectedMove(result.dist, c1)
                 m2 == ExpectedMove(result.dist, c2)
             IN  RLt(m2[1], m1[1]) /\ RLt(m1[2], m2[2])
    /\ \E c1 \in Confidences \ {Zero, One}, c2 \in Confidences \ {Zero, One} :
          /\ RLt(c1, c2)
          /\ ExpectedMove(result.dist, c1) # ExpectedMove(result.dist, c2)

(***************************************************************************)
(* Claims about the sign of the prices, checked under SpecBS               *)
(***************************************************************************)
PriceAsked ==
    /\ priced.op \in {"call_price", "put_price"}
    /\ RGt(priced.S, Zero) /\ RGt(priced.K, Zero) /\ RGe(priced.r, Zero)

\* C29: call_price and put_price never return a negative value, for every
\* S > 0, K > 0, r >= 0, every T and every volatility, those <= 0 (where
\* d1 = d2 = 0) included.
C29_PricesNonNegative ==
    PriceAsked => RGe(priced.value, Zero)

\* Where the prices are not negative: at or after expiry, and before expiry
\* with a positive volatility, to within 5 units of the fixed-point
\* arithmetic, in which a price is the difference of two rounded products.  With T > 0 and sigma <= 0 both normal cdfs are 1/2 and the
\* price is half the difference of the spot and the discounted strike.
PricesNonNegativeWithVolatility ==
    PriceAsked /\ (RLe(priced.T, Zero) \/ RGt(priced.sigma, Zero)) =>
        RGe(priced.value, Q(-5, FP))
HalfForwardWithoutVolatility ==
    PriceAsked /\ RGt(priced.T, Zero) /\ RLe(priced.sigma, Zero) =>
        LET half == Q(MulFP(ToFP(priced.S), FP \div 2)
                        - MulFP(MulFP(ToFP(priced.K),
                                      ExpFP(ToFP(RNeg(RMul(priced.r, priced.T))))),
                                FP \div 2), FP)
        IN  priced.value = IF priced.op = "call_price" THEN half ELSE RNeg(half)

(***************************************************************************)
(* Claims about the mutations of the central portfolio, checked under      *)
(* SpecMutate                                                              *)
(***************************************************************************)
MutationStep == mutation' # mutation
AnalyzeStep == analyzed' # analyzed
CacheEmpty == analytics_cache = None /\ cache_timestamp = None
InMemoryIsPersisted ==
    IF portfolio_file.exists
    THEN portfolio_file.positions = [i \in DOMAIN positions |-> ToDict(positions[i])]
    ELSE positions = <<>>

\* C30: after any mutation of the central portfolio (add_stock, add_option,
\* remove_position, clear, import_from_json) the analytics cache is empty
\* and its timestamp unset and the positions in memory are those in the
\* portfolio file; an analyze_portfolio that finds the cache empty
\* recomputes from the positions held, force_refresh or not.
C30_MutationEmptiesCache ==
    [][/\ MutationStep =>
            /\ analytics_cache' = None
            /\ cache_timestamp' = None
            /\ InMemoryIsPersisted'
       /\ AnalyzeStep /\ CacheEmpty =>
            /\ ~analyzed'.from_cache
            /\ analyzed'.value.total_positions = Len(positions)]_vars

\* The same of the mutations that return; a mutation that raises is an
\* import that has cleared the portfolio and left the cache as it was.
ReturningMutationEmptiesCache ==
    [][/\ MutationStep /\ ~mutation'.raised =>
            /\ analytics_cache' = None
            /\ cache_timestamp' = None
            /\ InMemoryIsPersisted'
       /\ MutationStep /\ mutation'.raised =>
            /\ mutation'.op = "import_from_json"
            /\ UNCHANGED <<analytics_cache, cache_timestamp>>
            /\ InMemoryIsPersisted'
       /\ AnalyzeStep /\ CacheEmpty =>
            /\ ~analyzed'.from_cache
            /\ analyzed'.value.total_positions = Len(positions)]_vars

\* An analysis served from the cache, within its lifetime, that was
\* computed from positions no longer held.
StaleAnalyticsServed ==
    /\ analyzed # None
    /\ analyzed.from_cache
    /\ ~analyzed.force_refresh
    /\ analyzed.elapsed < CacheTtl
    /\ analyzed.value.total_positions # Len(positions)

=============================================================================
